---- MODULE Spec2Model ----
(***************************************************************************)
(* Model of the ARCADE health scan (scripts/health-scan.ts) and of the     *)
(* parts of the embedded bridge agent (src/lib/bridgeScript.ts) that the   *)
(* scan observes.                                                          *)
(*                                                                         *)
(* The driver (main) is a sequential process; every `await` is one step.   *)
(* The page under test is the environment: the iframe loads, the agent is  *)
(* injected, a canvas appears, the embedded program raises errors, and the *)
(* agent's postMessage telemetry is delivered asynchronously.              *)
(*                                                                         *)
(* Spec is the scan; AgentSpec is the agent inside one embedded document,  *)
(* with every trigger of its readiness emission and every injection.       *)
(***************************************************************************)
EXTENDS Integers, Sequences, FiniteSets, TLC

VARIABLES
    manifest,           \* manifest.games: sequence of [status, movement]
    pc,                 \* position of main()
    idx,                \* 1-based position of `game` in manifest.games
    results,            \* results: HealthResult[]
    exitCode,           \* process.exitCode
    report,             \* the rows written to the report files
    reportWritten,      \* TRUE once the report files are written
    reachable,          \* outcome of isReachable(baseUrl)
    listening,          \* pageerror/console listeners attached to the page
    consoleErrorCount,  \* closure counter of the attached listeners
    readyPromise,       \* outcome of page.waitForFunction(... ready === true)
    ready,              \* let ready
    totalErrors,        \* const totalErrors
    animationActivity,  \* let animationActivity
    signatureA,         \* let signatureA
    signatureB,         \* let signatureB
    motionDelta,        \* const motionDelta
    responseDelta,      \* const responseDelta
    noMotion,           \* let noMotion
    noResponse,         \* let noResponse
    pageGame,           \* which entry's route is loaded in the page (0: none)
    health,             \* window.__healthScan of the loaded page
    agentInjected,      \* window.__arcadeBridge set in the embedded document
    hasCanvas,          \* the embedded document holds a canvas element
    readySent,          \* agent: let readySent
    inflightReady,      \* an arcade:ready message posted, not yet delivered
    inflightErrors,     \* arcade:error messages posted, not yet delivered
    fallbackCanvas,     \* history: probeCanvasDimensions found a canvas
    keyPresses,         \* history: page.keyboard.press calls for this entry
    pressFailed,        \* history: page.keyboard.press rejected for this entry
    seenBeforeRead,     \* history: error events raised while this entry's
                        \*   listeners were attached, up to the health read
    thrownInProbe,      \* history: error events raised by this entry's page
                        \*   from its navigation up to its last snapshot
    bursts,             \* history: error bursts raised in the whole scan
    frozen,             \* the embedded window delivers no animation frame
    manifestFile,       \* status of each entry in games.manifest.json on disk
    manifestWrites,     \* writeFile(MANIFEST_PATH, ...) calls
    writeChanges,       \* cli.writeChanges as read after the report
    scriptMarker,       \* agent: script[data-arcade-bridge] is in the document
    arcadeBridge,       \* agent: window.__arcadeBridge is set
    layers,             \* agent: times the body of BRIDGE_SCRIPT was installed
    agentReadySent,     \* agent: the layers whose readySent is true
    docState,           \* agent: document.readyState of the embedded document
    canvasInDoc,        \* agent: the embedded document holds a canvas element
    timerPending,       \* agent: layers whose setTimeout(.., 0) has yet to fire
    mutationPending,    \* agent: layers whose observer holds mutation records
    pendingFrame,       \* agent: layers wrapping the scheduled frame callback
    readyMessages,      \* agent: arcade:ready messages posted to the parent
    readyWithoutCanvas, \* history: arcade:ready was posted without a canvas
    lastEvent,          \* history: the last event and how often it was handled
    injections,         \* history: injectBridgeScript calls
    frameNow,           \* frames: timestamp of the latest animation frame (ms)
    metricsState,       \* frames: metricsState of the agent
    callbackQueue,      \* frames: callbacks scheduled for the next frame
    nativeHandles,      \* frames: handles the native primitive has returned
    lastCall,           \* history: what the wrapper did for the last callback
    callbackLog,        \* history: handles whose callback ran, or was cancelled
    metricsLog,         \* history: frame timestamps of the metrics messages
    lastMetrics,        \* history: payload of the last metrics message
    frameDeltas,        \* history: every inter-frame delta recordFrame has seen
    storage,            \* messages: localStorage of the embedded document
    handled,            \* history: the last message or console call the
                        \*   agent saw, and everything it did for it
    hostKind,           \* listeners: the host page that listens
    hostState,          \* listeners: what that page keeps from telemetry
    inboundCount,       \* listeners: messages the page has received
    lastInbound,        \* history: the last message and the state before it
    route,              \* game page: the route the host shows
    hasNavigatedRef,    \* game page: hasNavigatedRef.current
    iframeFocusRef,     \* game page: iframeFocusRef.current
    domFocus,           \* game page: the document that holds keyboard focus
    hostControlsHiddenRef, \* game page: hostControlsHiddenRef.current
    sentToGame,         \* game page: control messages posted since mounting
    navigations,        \* game page: navigate('/') calls of handleKeyPipeline
    lastKey,            \* history: the last key event and its effects
    sigLeft,            \* signatures: first argument of computeSignatureDelta
    sigRight,           \* signatures: second argument
    deltaLR,            \* signatures: computeSignatureDelta(left, right)
    deltaRL,            \* signatures: computeSignatureDelta(right, left)
    fpsProbe,           \* average frame rate: the variables of main() it is
                        \* computed from, and the avgFps of the result
    keyProbe,           \* movement key: an input text and the key derived
    activityProbe       \* activity measurement: the closure of
                        \* measureAnimationActivity and the frames it sees

vars == << manifest, pc, idx, results, exitCode, report, reportWritten,
           reachable, listening, consoleErrorCount, readyPromise, ready,
           totalErrors, animationActivity, signatureA, signatureB, motionDelta,
           responseDelta, noMotion, noResponse, pageGame, health, agentInjected, hasCanvas,
           readySent, inflightReady, inflightErrors, fallbackCanvas,
           keyPresses, pressFailed, seenBeforeRead, thrownInProbe, bursts,
           frozen, manifestFile, manifestWrites, writeChanges, scriptMarker,
           arcadeBridge, layers, agentReadySent, docState, canvasInDoc,
           timerPending, mutationPending, pendingFrame, readyMessages,
           readyWithoutCanvas, lastEvent, injections, frameNow, metricsState,
           callbackQueue, nativeHandles, lastCall, callbackLog, metricsLog,
           lastMetrics, frameDeltas, storage,
           handled, hostKind, hostState, inboundCount, lastInbound, route,
           hasNavigatedRef, iframeFocusRef, domFocus, hostControlsHiddenRef,
           sentToGame, navigations, lastKey, sigLeft, sigRight, deltaLR,
           deltaRL, fpsProbe, keyProbe, activityProbe >>

driverLocals == << readyPromise, ready, totalErrors, animationActivity,
                   signatureA, signatureB, motionDelta, responseDelta, noMotion,
                   noResponse >>
pageVars == << pageGame, health, agentInjected, hasCanvas, readySent,
               inflightReady, inflightErrors >>
history == << fallbackCanvas, keyPresses, pressFailed, seenBeforeRead,
              thrownInProbe, bursts >>
outputs == << results, exitCode, report, reportWritten >>
diskVars == << manifestFile, manifestWrites, writeChanges >>
scanVars == << manifest, pc, idx, outputs, reachable, listening,
              consoleErrorCount, driverLocals, pageVars, history, frozen,
              diskVars >>
agentVars == << scriptMarker, arcadeBridge, layers, agentReadySent, docState,
               canvasInDoc, timerPending, mutationPending, pendingFrame,
               readyMessages, readyWithoutCanvas, lastEvent, injections >>
frameVars == << frameNow, metricsState, callbackQueue, nativeHandles, lastCall,
               callbackLog, metricsLog, lastMetrics, frameDeltas >>
messageVars == << storage, handled >>
listenerVars == << hostKind, hostState, inboundCount, lastInbound >>
gamePageVars == << route, hasNavigatedRef, iframeFocusRef, domFocus,
                  hostControlsHiddenRef, sentToGame, navigations, lastKey >>
signatureVars == << sigLeft, sigRight, deltaLR, deltaRL >>

probes == << fpsProbe, keyProbe, activityProbe >>

\* what each specification leaves alone
outsideScan == << agentVars, frameVars, messageVars, listenerVars,
                 gamePageVars, signatureVars, probes >>
outsideAgent == << scanVars, probes, frameVars, messageVars, listenerVars,
                  gamePageVars, signatureVars >>
outsideFrame == << scanVars, probes, messageVars, listenerVars, gamePageVars,
                  signatureVars >>
outsideMessage == << scanVars, probes, agentVars, frameVars, listenerVars,
                    gamePageVars, signatureVars >>
outsideListener == << scanVars, probes, agentVars, frameVars, messageVars,
                     gamePageVars, signatureVars >>
outsideGamePage == << scanVars, probes, agentVars, frameVars, messageVars,
                     listenerVars, signatureVars >>
outsideSignature == << scanVars, probes, agentVars, frameVars, messageVars,
                      listenerVars, gamePageVars >>
outsideFps == << scanVars, agentVars, frameVars, messageVars, listenerVars,
                gamePageVars, signatureVars, keyProbe, activityProbe >>
outsideActivity == << scanVars, fpsProbe, keyProbe, messageVars, listenerVars,
                     gamePageVars, signatureVars >>
outsideKey == << scanVars, agentVars, frameVars, messageVars, listenerVars,
                gamePageVars, signatureVars, fpsProbe, activityProbe >>

----------------------------------------------------------------------------
(* Bounds of the model *)

MaxGames == 2           \* longest manifest explored
MaxErrorBursts == 1     \* error bursts raised during one scan
MaxInjections == 2      \* injectBridgeScript calls on one embedded document
MaxPixels == 2          \* pixels of a downscaled frame
MaxSchedulings == 3     \* requestAnimationFrame calls of the embedded program
MaxFrameTime == 208     \* timestamp of the last animation frame explored (ms)
MaxArgs == 2            \* arguments of one console call
MaxInbound == 3         \* messages one host page receives
MaxVisits == 2          \* times the game page is left with Escape
MaxControls == 3        \* control messages posted during one visit

(* Program constants *)

ErrorThreshold == 3     \* totalErrors > 3
TickFloor == 30         \* tickCount <= 30
ActivityWindowMs == 2000 \* elapsed >= 2000
DeltaPercent == 1       \* delta < 0.01, as a percentage
MaxLuminance == 255     \* total / (length * 255)
FrameWindow == 60       \* metricsState.frameTimes.length > 60
MetricsKept == 120      \* prev.slice(-119) and the new sample
ConsoleKept == 200      \* prev.slice(-199) and the new entry
ThrottleMs == 100       \* timestamp - metricsState.lastPost >= 100

Null == [null |-> TRUE]
NullKey == "<null>"

Min(S) == CHOOSE x \in S : \A y \in S : x <= y

Sum(s) ==
    LET Total[i \in 0..Len(s)] == IF i = 0 THEN 0 ELSE Total[i - 1] + s[i]
    IN  Total[Len(s)]

\* Number((n / d).toFixed(2)) in hundredths, for n >= 0 and d > 0
Hundredths(n, d) == (200 * n + d) \div (2 * d)

----------------------------------------------------------------------------
(* Text helpers: a string is a sequence of one-character strings *)

LowerCase == << "a", "b", "c", "d", "e", "f", "g", "h", "i", "j", "k", "l", "m",
                "n", "o", "p", "q", "r", "s", "t", "u", "v", "w", "x", "y", "z" >>
UpperCase == << "A", "B", "C", "D", "E", "F", "G", "H", "I", "J", "K", "L", "M",
                "N", "O", "P", "Q", "R", "S", "T", "U", "V", "W", "X", "Y", "Z" >>
Digits == { "0", "1", "2", "3", "4", "5", "6", "7", "8", "9" }

IsLower(c) == \E i \in 1..26 : LowerCase[i] = c
IsUpper(c) == \E i \in 1..26 : UpperCase[i] = c
ToUpperChar(c) == IF IsLower(c) THEN UpperCase[CHOOSE i \in 1..26 : LowerCase[i] = c] ELSE c
ToLowerChar(c) == IF IsUpper(c) THEN LowerCase[CHOOSE i \in 1..26 : UpperCase[i] = c] ELSE c
IsWordChar(c) == IsLower(c) \/ IsUpper(c) \/ c \in Digits \/ c = "_"
IsSpace(c) == c = " "

ToUpperCase(s) == [i \in 1..Len(s) |-> ToUpperChar(s[i])]

\* s.split(c)[0]
BeforeChar(s, c) ==
    LET I == { i \in 1..Len(s) : s[i] = c }
    IN  IF I = {} THEN s ELSE SubSeq(s, 1, Min(I) - 1)

\* s.split(/\bor\b/i)[0]
BeforeWordOr(s) ==
    LET I == { i \in 1..Len(s) :
                 /\ i + 1 <= Len(s)
                 /\ ToUpperChar(s[i]) = "O"
                 /\ ToUpperChar(s[i + 1]) = "R"
                 /\ (i = 1 \/ ~IsWordChar(s[i - 1]))
                 /\ (i + 1 = Len(s) \/ ~IsWordChar(s[i + 2])) }
    IN  IF I = {} THEN s ELSE SubSeq(s, 1, Min(I) - 1)

\* s.trim()
Trim(s) ==
    LET I == { i \in 1..Len(s) : ~IsSpace(s[i]) }
    IN  IF I = {} THEN << >>
        ELSE SubSeq(s, Min(I), CHOOSE j \in I : \A k \in I : k <= j)

\* s.replace(/\s+/g, ' ')
CollapseSpaces(s) ==
    LET Keep == { i \in 1..Len(s) : ~(IsSpace(s[i]) /\ i > 1 /\ IsSpace(s[i - 1])) }
        Nth(n) == CHOOSE i \in Keep : Cardinality({ j \in Keep : j <= i }) = n
    IN  [n \in 1..Cardinality(Keep) |-> s[Nth(n)]]

StartsWith(s, p) == Len(p) <= Len(s) /\ SubSeq(s, 1, Len(p)) = p
Includes(s, p) == \E i \in 1..(Len(s) - Len(p) + 1) : SubSeq(s, i, i + Len(p) - 1) = p

ARROW == << "A", "R", "R", "O", "W" >>
LEFT == << "L", "E", "F", "T" >>
RIGHT == << "R", "I", "G", "H", "T" >>
UP == << "U", "P" >>
DOWN == << "D", "O", "W", "N" >>
SPACE == << "S", "P", "A", "C", "E" >>
SPACEBAR == << "S", "P", "A", "C", "E", "B", "A", "R" >>

\* the key derived from a non-empty first segment
KeyOfSegment(firstSegment) ==
    LET token == CollapseSpaces(firstSegment)
        upper == ToUpperCase(token)
    IN  IF StartsWith(upper, ARROW) /\ Includes(upper, LEFT) THEN "ArrowLeft"
        ELSE IF StartsWith(upper, ARROW) /\ Includes(upper, RIGHT) THEN "ArrowRight"
        ELSE IF StartsWith(upper, ARROW) /\ Includes(upper, UP) THEN "ArrowUp"
        ELSE IF StartsWith(upper, ARROW) /\ Includes(upper, DOWN) THEN "ArrowDown"
        ELSE IF upper = LEFT THEN "ArrowLeft"
        ELSE IF upper = RIGHT THEN "ArrowRight"
        ELSE IF upper = UP THEN "ArrowUp"
        ELSE IF upper = DOWN THEN "ArrowDown"
        ELSE IF Len(upper) = 1 /\ IsUpper(upper[1]) THEN ToLowerChar(upper[1])
        ELSE IF upper = SPACE \/ upper = SPACEBAR THEN "Space"
        ELSE NullKey

FirstSegment(rawInput) ==
    Trim(BeforeChar(BeforeChar(BeforeWordOr(BeforeChar(rawInput, "|")), "/"), ","))

\* selectFirstMovementKey(game); movement is the sequence of the
\* controls.movement[i].input texts
selectFirstMovementKey(game) ==
    IF Len(game.movement) = 0 THEN NullKey
    ELSE IF Len(game.movement[1]) = 0 THEN NullKey
    ELSE IF Len(FirstSegment(game.movement[1])) = 0 THEN NullKey
    ELSE KeyOfSegment(FirstSegment(game.movement[1]))

----------------------------------------------------------------------------
(* Frame signatures *)

\* a delta that compares the luminance buffers whatever the dimensions are
DeltaIgnoringDimensions(a, b) ==
    IF a = Null \/ b = Null THEN Null
    ELSE IF Len(a.luminances) = 0 \/ Len(a.luminances) # Len(b.luminances) THEN Null
    ELSE LET Abs(x) == IF x < 0 THEN -x ELSE x
             Total[i \in 0..Len(a.luminances)] ==
                 IF i = 0 THEN 0
                 ELSE Total[i - 1] + Abs(a.luminances[i] - b.luminances[i])
         IN  [num |-> Total[Len(a.luminances)],
              den |-> Len(a.luminances) * MaxLuminance]

\* computeSignatureDelta(a, b): Null, or the fraction num/den
computeSignatureDelta(a, b) ==
    IF a = Null \/ b = Null THEN Null
    ELSE IF a.width # b.width \/ a.height # b.height THEN Null
    ELSE IF Len(a.luminances) = 0 \/ Len(a.luminances) # Len(b.luminances) THEN Null
    ELSE LET Abs(x) == IF x < 0 THEN -x ELSE x
             Total[i \in 0..Len(a.luminances)] ==
                 IF i = 0 THEN 0
                 ELSE Total[i - 1] + Abs(a.luminances[i] - b.luminances[i])
         IN  [num |-> Total[Len(a.luminances)],
              den |-> Len(a.luminances) * MaxLuminance]

\* delta != null && delta < 0.01
BelowThreshold(delta) ==
    delta # Null /\ delta.num * 100 < DeltaPercent * delta.den

----------------------------------------------------------------------------
(* Inputs *)

GameStatus == { "working", "broken", "missing-assets", "unknown", "flaky" }

\* controls.movement[0].input texts
InputAD == << "A", "/", "D" >>
InputWASD == << "W", "A", "S", "D" >>

\* A sample games.manifest.json: every status, and every kind of movement
\* declaration (none, a derivable key, no derivable key).
SampleGames ==
    << [status |-> "working", movement |-> << InputAD >>],
       [status |-> "unknown", movement |-> << InputWASD >>],
       [status |-> "working", movement |-> << >>],
       [status |-> "missing-assets", movement |-> << InputAD >>],
       [status |-> "broken", movement |-> << InputAD >>],
       [status |-> "flaky", movement |-> << >>] >>

\* The manifests explored: the runs of up to MaxGames consecutive entries of
\* the sample, starting at any entry and wrapping around.
Window(start, n) ==
    [i \in 1..n |-> SampleGames[((start + i - 2) % Len(SampleGames)) + 1]]

Manifests == { Window(start, n) : start \in 1..Len(SampleGames), n \in 1..MaxGames }

\* snapshots captureCanvasSignature can return
Signatures ==
    { [width |-> 1, height |-> 1, luminances |-> << 0 >>],
      [width |-> 1, height |-> 1, luminances |-> << 2 >>],
      [width |-> 1, height |-> 1, luminances |-> << 4 >>],
      [width |-> 2, height |-> 1, luminances |-> << 0, 255 >>] }

\* intervals at which the embedded window delivers animation frames (ms)
FrameIntervalsMs == { 66, 67 }

\* number of error events the embedded program raises in one go
ErrorBurstSizes == { 3, 4 }

----------------------------------------------------------------------------
(* The page under test *)

FreshHealth == [ready |-> FALSE, errors |-> 0]

\* Positions of main() at which the driver has yet to read __healthScan, and
\* positions from the navigation of an entry up to its last snapshot.
\* Telemetry that arrives after the health read is never looked at by the
\* driver, so the agent's steps are modelled up to that read only.
BeforeReadPcs == { "goto", "waitReady", "fallback", "readHealth" }
ProbePcs == { "waitReady", "fallback", "readHealth", "measure", "sigA", "sigB",
              "press", "sigC" }
PageLivePcs == { "goto" } \cup ProbePcs

\* window.__arcadeBridge guard of the bridge script, run on iframe load
InjectBridge ==
    /\ pc \in { "waitReady", "fallback", "readHealth" }
    /\ pageGame # 0
    /\ ~agentInjected
    /\ agentInjected' = TRUE
    /\ UNCHANGED << outsideScan, diskVars, frozen, manifest, pc, idx, outputs, reachable, listening,
                    consoleErrorCount, driverLocals, pageGame, health, hasCanvas,
                    readySent, inflightReady, inflightErrors, history >>

\* the embedded program creates its canvas
CanvasAppears ==
    /\ pc \in { "waitReady", "fallback" }
    /\ pageGame # 0
    /\ ~hasCanvas
    /\ hasCanvas' = TRUE
    /\ UNCHANGED << outsideScan, diskVars, frozen, manifest, pc, idx, outputs, reachable, listening,
                    consoleErrorCount, driverLocals, pageGame, health,
                    agentInjected, readySent, inflightReady, inflightErrors,
                    history >>

\* sendReadyOnce, run by any of its triggers
sendReadyOnce ==
    /\ pc \in BeforeReadPcs
    /\ pageGame = idx
    /\ agentInjected
    /\ ~readySent
    /\ hasCanvas
    /\ readySent' = TRUE
    /\ inflightReady' = TRUE
    /\ UNCHANGED << outsideScan, diskVars, frozen, manifest, pc, idx, outputs, reachable, listening,
                    consoleErrorCount, driverLocals, pageGame, health,
                    agentInjected, hasCanvas, inflightErrors, history >>

\* the page's message listener receives arcade:ready
DeliverReady ==
    /\ pc \in BeforeReadPcs
    /\ inflightReady
    /\ inflightReady' = FALSE
    /\ health' = [health EXCEPT !.ready = TRUE]
    /\ UNCHANGED << outsideScan, diskVars, frozen, manifest, pc, idx, outputs, reachable, listening,
                    consoleErrorCount, driverLocals, pageGame, agentInjected,
                    hasCanvas, readySent, inflightErrors, history >>

\* the page's message listener receives the posted arcade:error messages
\* (case 'arcade:error': health.errors += 1, once per message)
DeliverError ==
    /\ pc \in BeforeReadPcs
    /\ inflightErrors > 0
    /\ inflightErrors' = 0
    /\ health' = [health EXCEPT !.errors = @ + inflightErrors]
    /\ UNCHANGED << outsideScan, diskVars, frozen, manifest, pc, idx, outputs, reachable, listening,
                    consoleErrorCount, driverLocals, pageGame, agentInjected,
                    hasCanvas, readySent, inflightReady, history >>

\* the bookkeeping every error burst of n events shares
CountBurst(n) ==
    /\ bursts < MaxErrorBursts
    /\ bursts' = bursts + 1
    /\ pageGame # 0
    /\ pc \in PageLivePcs
    /\ seenBeforeRead' = IF listening /\ pc \in BeforeReadPcs
                         THEN seenBeforeRead + n ELSE seenBeforeRead
    /\ thrownInProbe' = IF pc \in ProbePcs THEN thrownInProbe + n ELSE thrownInProbe
    /\ UNCHANGED << fallbackCanvas, keyPresses, pressFailed >>

\* page.on('pageerror'), page.on('console')
OnPageEvent(count, n) == count + n

\* The embedded program throws n uncaught errors: the browser raises
\* pageerror on the page, and window.onerror of the agent posts arcade:error.
UncaughtErrors ==
    \E n \in ErrorBurstSizes :
        /\ CountBurst(n)
        /\ consoleErrorCount' = IF listening THEN OnPageEvent(consoleErrorCount, n)
                                ELSE consoleErrorCount
        /\ inflightErrors' = IF agentInjected /\ pc \in BeforeReadPcs
                             THEN inflightErrors + n ELSE inflightErrors
        /\ UNCHANGED << outsideScan, diskVars, frozen, manifest, pc, idx, outputs, reachable, listening,
                        driverLocals, pageGame, health, agentInjected, hasCanvas,
                        readySent, inflightReady >>

\* The embedded program calls console.error n times: the browser raises a
\* console event of type error; the agent forwards arcade:console only.
ConsoleErrors ==
    \E n \in ErrorBurstSizes :
        /\ CountBurst(n)
        /\ consoleErrorCount' = IF listening THEN OnPageEvent(consoleErrorCount, n)
                                ELSE consoleErrorCount
        /\ UNCHANGED << outsideScan, diskVars, frozen, manifest, pc, idx, outputs, reachable, listening,
                        driverLocals, pageVars >>

----------------------------------------------------------------------------
(* The driver: main() of health-scan.ts *)

pageState == << listening, consoleErrorCount, pageVars >>

\* a pre-check that leaves the exit code alone
PrecheckExitUnchanged(outcome, code) == code

\* process.exitCode = 1 on `!reachable`, and in main().catch when isReachable
\* throws
PrecheckExit(outcome, code) == IF outcome = "ok" THEN code ELSE 1

\* const reachable = await isReachable(baseUrl)
Precheck ==
    /\ pc = "start"
    /\ \E outcome \in { "ok", "refused", "error" } :
        /\ reachable' = outcome
        /\ pc' = CASE outcome = "ok" -> "loop"
                   [] outcome = "refused" -> "unreachable"
                   [] OTHER -> "aborted"
        /\ exitCode' = PrecheckExit(outcome, exitCode)
    /\ UNCHANGED << outsideScan, diskVars, frozen, manifest, idx, results, report, reportWritten, pageState,
                    driverLocals, history >>

\* an exclusion that reports the entry as broken
ExcludedAsBroken(i, game) ==
    [id |-> i, ready |-> FALSE, errors |-> 0, stalled |-> TRUE, noMotion |-> TRUE,
     noResponse |-> TRUE, status |-> "broken", previousStatus |-> game.status,
     note |-> << "Excluded (missing assets)" >>]

\* the result pushed for an entry whose status is missing-assets
ExcludedResult(i, game) ==
    [id |-> i, ready |-> FALSE, errors |-> 0, stalled |-> TRUE, noMotion |-> TRUE,
     noResponse |-> TRUE, status |-> game.status, previousStatus |-> game.status,
     note |-> << "Excluded (missing assets)" >>]

\* The variables declared in the loop body exist for one iteration only:
\* outside it they hold these values.
NewIteration ==
    /\ readyPromise' = "pending"
    /\ ready' = FALSE
    /\ totalErrors' = 0
    /\ animationActivity' = Null
    /\ signatureA' = Null
    /\ signatureB' = Null
    /\ motionDelta' = Null
    /\ responseDelta' = Null
    /\ noMotion' = FALSE
    /\ noResponse' = FALSE
    /\ fallbackCanvas' = FALSE
    /\ keyPresses' = 0
    /\ pressFailed' = FALSE
    /\ seenBeforeRead' = 0
    /\ thrownInProbe' = 0

\* if (game.status === 'missing-assets') { results.push(...); continue; }
SkipExcluded ==
    /\ pc = "loop"
    /\ idx <= Len(manifest)
    /\ manifest[idx].status = "missing-assets"
    /\ results' = Append(results, ExcludedResult(idx, manifest[idx]))
    /\ idx' = idx + 1
    /\ NewIteration
    /\ UNCHANGED << outsideScan, diskVars, frozen, manifest, pc, exitCode, report, reportWritten, reachable,
                    pageState, bursts >>

\* removeAllListeners, let consoleErrorCount = 0, page.on(...)
BeginProbe ==
    /\ pc = "loop"
    /\ idx <= Len(manifest)
    /\ manifest[idx].status # "missing-assets"
    /\ listening' = TRUE
    /\ consoleErrorCount' = 0
    /\ NewIteration
    /\ pc' = "goto"
    /\ UNCHANGED << outsideScan, diskVars, frozen, manifest, idx, outputs, reachable, pageVars, bursts >>

\* await page.goto(...): the route of the entry replaces the loaded page
Goto ==
    /\ pc = "goto"
    /\ pageGame' = idx
    /\ health' = FreshHealth
    /\ agentInjected' = FALSE
    /\ hasCanvas' = FALSE
    /\ readySent' = FALSE
    /\ inflightReady' = FALSE
    /\ inflightErrors' = 0
    /\ pc' = "waitReady"
    /\ UNCHANGED << outsideScan, diskVars, frozen, manifest, idx, outputs, reachable, listening,
                    consoleErrorCount, driverLocals, history >>

\* main().catch: a rejected await outside any try block ends main
Abort ==
    /\ pc' = "aborted"
    /\ exitCode' = 1
    /\ NewIteration
    /\ UNCHANGED << outsideScan, diskVars, frozen, manifest, idx, results, report, reportWritten, reachable,
                    pageState, bursts >>

\* page.goto rejects (navigation timeout, connection lost)
GotoFails ==
    /\ pc = "goto"
    /\ Abort

\* page.evaluate rejects (execution context destroyed, page crashed)
EvaluateFails ==
    /\ pc \in { "fallback", "readHealth", "measure", "sigA", "sigB" }
    /\ Abort

\* waitForFunction resolves: __healthScan.ready === true
ReadyResolves ==
    /\ pc = "waitReady"
    /\ health.ready
    /\ readyPromise' = "resolved"
    /\ ready' = TRUE
    /\ pc' = "readHealth"
    /\ UNCHANGED << outsideScan, diskVars, frozen, manifest, idx, outputs, reachable, pageState, totalErrors,
                    animationActivity, signatureA, signatureB, motionDelta, responseDelta,
                    noMotion, noResponse, history >>

\* waitForFunction times out: .catch(() => null)
ReadyTimesOut ==
    /\ pc = "waitReady"
    /\ ~health.ready
    /\ readyPromise' = "timeout"
    /\ pc' = "fallback"
    /\ UNCHANGED << outsideScan, diskVars, frozen, manifest, idx, outputs, reachable, pageState, ready,
                    totalErrors, animationActivity, signatureA, signatureB,
                    motionDelta, responseDelta, noMotion, noResponse, history >>

\* a driver without the fallback probe
NoFallback(found) == FALSE

\* ready = Boolean(fallbackCanvas)
FallbackReady(found) == found

\* const fallbackCanvas = await probeCanvasDimensions(page)
FallbackProbe ==
    /\ pc = "fallback"
    /\ fallbackCanvas' = hasCanvas
    /\ ready' = FallbackReady(hasCanvas)
    /\ pc' = "readHealth"
    /\ UNCHANGED << outsideScan, diskVars, frozen, manifest, idx, outputs, reachable, pageState, readyPromise,
                    totalErrors, animationActivity, signatureA, signatureB,
                    motionDelta, responseDelta, noMotion, noResponse, keyPresses, pressFailed,
                    seenBeforeRead, thrownInProbe, bursts >>

\* a driver that calls every entry stalled
AlwaysStalled(isReady) == TRUE

\* const stalled = !ready
Stalled(isReady) == ~isReady

IssueStalled == "arcade:ready not observed within"
IssueErrors == "High error count"
IssueNoMotion == "No motion detected (frame delta < 1% or rAF ticks <= 30)"
IssueNoResponse == "No basic input response (<1% delta after simulated movement key)"

\* an issue list that forgets the readiness reason
IssuesWithoutStalled(stalled, errors, motionless, unresponsive) ==
    (IF errors > ErrorThreshold THEN << IssueErrors >> ELSE << >>)
    \o (IF motionless THEN << IssueNoMotion >> ELSE << >>)
    \o (IF unresponsive THEN << IssueNoResponse >> ELSE << >>)

\* const issues: string[]
Issues(stalled, errors, motionless, unresponsive) ==
    (IF stalled THEN << IssueStalled >> ELSE << >>)
    \o (IF errors > ErrorThreshold THEN << IssueErrors >> ELSE << >>)
    \o (IF motionless THEN << IssueNoMotion >> ELSE << >>)
    \o (IF unresponsive THEN << IssueNoResponse >> ELSE << >>)

\* a verdict that ignores the error count
ShouldMarkBrokenIgnoringErrors(stalled, motionless, unresponsive, errors) ==
    stalled \/ motionless \/ unresponsive

\* const shouldMarkBroken
ShouldMarkBroken(stalled, motionless, unresponsive, errors) ==
    stalled \/ motionless \/ unresponsive \/ errors > ErrorThreshold

\* a status that is broken whatever the verdict
AlwaysBroken(shouldMarkBroken, previous) == "broken"

\* const derivedStatus
DerivedStatus(shouldMarkBroken, previous) ==
    IF shouldMarkBroken THEN "broken" ELSE previous

\* issues.join('; '): a text is the list of its pieces, and the separator is
\* a piece of its own between two issues
Join(issues) ==
    [k \in 1..(2 * Len(issues) - 1) |->
        IF k % 2 = 1 THEN issues[(k + 1) \div 2] ELSE "; "]

\* a note that holds the first issue only
NoteOfFirstIssue(issues) ==
    IF Len(issues) > 0 THEN << issues[1] >> ELSE << "Pass" >>

\* const note = issues.length > 0 ? issues.join('; ') : 'Pass'
Note(issues) == IF Len(issues) > 0 THEN Join(issues) ELSE << "Pass" >>

\* a result that carries the id of the first entry whatever entry was probed
ProbeResultOfFirst(i, game, isReady, errors, motionless, unresponsive) ==
    [id |-> 1, ready |-> isReady, errors |-> errors, stalled |-> Stalled(isReady),
     noMotion |-> motionless, noResponse |-> unresponsive,
     status |-> DerivedStatus(
                    ShouldMarkBroken(Stalled(isReady), motionless, unresponsive, errors),
                    game.status),
     previousStatus |-> game.status,
     note |-> Note(Issues(Stalled(isReady), errors, motionless, unresponsive))]

\* the HealthResult pushed at the end of a probe
ProbeResult(i, game, isReady, errors, motionless, unresponsive) ==
    [id |-> i, ready |-> isReady, errors |-> errors, stalled |-> Stalled(isReady),
     noMotion |-> motionless, noResponse |-> unresponsive,
     status |-> DerivedStatus(
                    ShouldMarkBroken(Stalled(isReady), motionless, unresponsive, errors),
                    game.status),
     previousStatus |-> game.status,
     note |-> Note(Issues(Stalled(isReady), errors, motionless, unresponsive))]

\* The tail of the loop body, from `const stalled` to results.push: it holds
\* no await, so it runs in the same step as the last await before it.  The
\* variables of the iteration keep their values until the next iteration
\* begins.
PushResult(errors, motionless, unresponsive) ==
    /\ results' = Append(results, ProbeResult(idx, manifest[idx], ready, errors,
                                              motionless, unresponsive))
    /\ idx' = idx + 1
    /\ pc' = "loop"

\* const totalErrors = (health?.errors ?? 0) + consoleErrorCount
TotalErrors(h, count) == h.errors + count

\* const health = await page.evaluate(() => window.__healthScan)
\* This is the driver's last look at __healthScan and at the agent: what the
\* agent and the message listener of this page do later has no effect on the
\* scan, and the telemetry state of the page is not tracked further.
\* When the entry is not ready, no later step of the probe runs.
ReadHealth ==
    /\ pc = "readHealth"
    /\ totalErrors' = TotalErrors(health, consoleErrorCount)
    /\ IF ready
       THEN pc' = "measure" /\ UNCHANGED << results, idx >>
       ELSE PushResult(TotalErrors(health, consoleErrorCount), noMotion, noResponse)
    /\ health' = FreshHealth
    /\ agentInjected' = FALSE
    /\ hasCanvas' = FALSE
    /\ readySent' = FALSE
    /\ inflightReady' = FALSE
    /\ inflightErrors' = 0
    /\ UNCHANGED << outsideScan, diskVars, frozen, manifest, exitCode, report, reportWritten, reachable,
                    listening, consoleErrorCount, pageGame, readyPromise, ready,
                    animationActivity, signatureA, signatureB, motionDelta,
                    responseDelta, noMotion, noResponse, history >>

\* the step loop of measureAnimationActivity at a frame interval d:
\* the first tick whose elapsed time reaches the window resolves
ActivityAt(d) ==
    LET ticks == Min({ n \in 1..ActivityWindowMs : n * d >= ActivityWindowMs })
    IN  [tickCount |-> ticks, elapsedMs |-> ticks * d]

\* The embedded window stops delivering animation frames (its frame callbacks
\* are paused, or the embedded program has replaced requestAnimationFrame):
\* step() of measureAnimationActivity is never called again.  The driver
\* looks at the frames of the embedded window in that wait only.
FrameWindowFreezes ==
    /\ pc = "measure"
    /\ ~frozen
    /\ frozen' = TRUE
    /\ UNCHANGED << outsideScan, diskVars, manifest, pc, idx, outputs, reachable,
                    pageState, driverLocals, history >>

\* animationActivity = await measureAnimationActivity(page): the promise is
\* resolved by step() alone, or at once with null when there is no iframe
MeasureActivity ==
    /\ pc = "measure"
    /\ ~frozen
    /\ animationActivity' \in { Null } \cup { ActivityAt(d) : d \in FrameIntervalsMs }
    /\ pc' = "sigA"
    /\ UNCHANGED << outsideScan, diskVars, frozen, manifest, idx, outputs, reachable, pageState, readyPromise,
                    ready, totalErrors, signatureA, signatureB, motionDelta,
                    responseDelta, noMotion, noResponse, history >>

\* signatureA = await captureCanvasSignature(page)
CaptureA ==
    /\ pc = "sigA"
    /\ signatureA' \in { Null } \cup Signatures
    /\ pc' = "sigB"
    /\ UNCHANGED << outsideScan, diskVars, frozen, manifest, idx, outputs, reachable, pageState, readyPromise,
                    ready, totalErrors, animationActivity, signatureB, motionDelta,
                    responseDelta, noMotion, noResponse, history >>

\* const tickCount = animationActivity?.tickCount ?? 0
TickCount(activity) == IF activity = Null THEN 0 ELSE activity.tickCount

\* a motion verdict that looks at the signature delta alone
NoMotionByDeltaOnly(delta, tickCount) == BelowThreshold(delta)

\* (motionDelta != null && motionDelta < 0.01) || tickCount <= 30
NoMotion(delta, tickCount) ==
    BelowThreshold(delta) \/ tickCount <= TickFloor

\* a response test that does not ask for a movement key
ShouldPressWithoutKey(movementKey, sigB) == sigB # Null

\* if (movementKey && signatureB)
ShouldPress(movementKey, sigB) == movementKey # NullKey /\ sigB # Null

\* signatureB = await captureCanvasSignature(page), then the motion verdict
\* and the choice of the movement key.  A signature is kept only as long as
\* a later step reads it: signatureA up to here, signatureB up to the
\* response test.
CaptureB ==
    /\ pc = "sigB"
    /\ \E sig \in { Null } \cup Signatures :
        LET delta == computeSignatureDelta(signatureA, sig)
            motionless == NoMotion(delta, TickCount(animationActivity))
        IN  /\ motionDelta' = delta
            /\ noMotion' = motionless
            /\ IF ShouldPress(selectFirstMovementKey(manifest[idx]), sig)
               THEN /\ signatureB' = sig
                    /\ pc' = "press"
                    /\ UNCHANGED << results, idx >>
               ELSE /\ signatureB' = Null
                    /\ PushResult(totalErrors, motionless, noResponse)
    /\ signatureA' = Null
    /\ UNCHANGED << outsideScan, diskVars, frozen, manifest, exitCode, report, reportWritten, reachable,
                    pageState, readyPromise, ready, totalErrors, animationActivity,
                    responseDelta, noResponse, history >>

\* await page.keyboard.press(movementKey, { delay: 20 })
PressKey ==
    /\ pc = "press"
    /\ keyPresses' = keyPresses + 1
    /\ pc' = "sigC"
    /\ UNCHANGED << outsideScan, diskVars, frozen, manifest, idx, outputs, reachable, pageState, driverLocals,
                    fallbackCanvas, pressFailed, seenBeforeRead, thrownInProbe,
                    bursts >>

\* page.keyboard.press rejects: catch { noResponse = true }
PressKeyFails ==
    /\ pc = "press"
    /\ pressFailed' = TRUE
    /\ noResponse' = TRUE
    /\ signatureB' = Null
    /\ PushResult(totalErrors, noMotion, TRUE)
    /\ UNCHANGED << outsideScan, diskVars, frozen, manifest, exitCode, report, reportWritten, reachable,
                    pageState, readyPromise, ready, totalErrors, animationActivity,
                    signatureA, motionDelta, responseDelta, noMotion,
                    fallbackCanvas, keyPresses, seenBeforeRead, thrownInProbe,
                    bursts >>

\* responseDelta != null && responseDelta < 0.01
NoResponse(delta) == BelowThreshold(delta)

\* const signatureC = await captureCanvasSignature(page), then the response
\* verdict.  signatureC is read by computeSignatureDelta only.
CaptureC ==
    /\ pc = "sigC"
    /\ \E signatureC \in { Null } \cup Signatures :
        LET delta == computeSignatureDelta(signatureB, signatureC)
        IN  /\ responseDelta' = delta
            /\ noResponse' = NoResponse(delta)
            /\ PushResult(totalErrors, noMotion, NoResponse(delta))
    /\ signatureB' = Null
    /\ UNCHANGED << outsideScan, diskVars, frozen, manifest, exitCode, report, reportWritten, reachable,
                    pageState, readyPromise, ready, totalErrors, animationActivity,
                    signatureA, motionDelta, noMotion, history >>

\* the page.evaluate of the third capture rejects inside the try block
CaptureCFails ==
    /\ pc = "sigC"
    /\ noResponse' = TRUE
    /\ signatureB' = Null
    /\ PushResult(totalErrors, noMotion, TRUE)
    /\ UNCHANGED << outsideScan, diskVars, frozen, manifest, exitCode, report, reportWritten, reachable,
                    pageState, readyPromise, ready, totalErrors, animationActivity,
                    signatureA, motionDelta, responseDelta, noMotion, history >>

\* after the loop: browser.close() and the report files
WriteReport ==
    /\ pc = "loop"
    /\ idx > Len(manifest)
    /\ report' = results
    /\ reportWritten' = TRUE
    /\ pageGame' = 0
    /\ NewIteration
    /\ pc' = "reconcile"
    /\ UNCHANGED << outsideScan, diskVars, frozen, manifest, idx, results, exitCode, reachable, listening,
                    consoleErrorCount, health, agentInjected, hasCanvas, readySent,
                    inflightReady, inflightErrors, bursts >>

\* a reconciliation that persists every broken result
PersistAnyBroken(result) == result.status = "broken"

\* result.status === 'broken' && result.previousStatus !== 'broken'
ShouldPersist(result) ==
    result.status = "broken" /\ result.previousStatus # "broken"

\* results.forEach(...): target.status = 'broken' for the entry found by id
Reconciled(file, rs) ==
    [i \in 1..Len(file) |->
        IF \E k \in 1..Len(rs) : rs[k].id = i /\ ShouldPersist(rs[k])
        THEN "broken" ELSE file[i]]

\* manifestChanged
ManifestChanged(rs) == \E k \in 1..Len(rs) : ShouldPersist(rs[k])

\* if (writeChanges) { ... }: the option is an input of main that is read
\* here and nowhere else
Reconcile ==
    /\ pc = "reconcile"
    /\ \E option \in BOOLEAN :
        /\ writeChanges' = option
        /\ IF option /\ ManifestChanged(results)
           THEN /\ manifestFile' = Reconciled(manifestFile, results)
                /\ manifestWrites' = manifestWrites + 1
           ELSE UNCHANGED << manifestFile, manifestWrites >>
    /\ pc' = "done"
    /\ UNCHANGED << outsideScan, frozen, manifest, idx, outputs, reachable,
                    pageState, driverLocals, history >>

----------------------------------------------------------------------------

\* the agent's variables before any document is looked at
AgentIdle ==
    /\ scriptMarker = FALSE
    /\ arcadeBridge = FALSE
    /\ layers = 0
    /\ agentReadySent = {}
    /\ docState = "loading"
    /\ canvasInDoc = FALSE
    /\ timerPending = {}
    /\ mutationPending = {}
    /\ pendingFrame = Null
    /\ readyMessages = 0
    /\ readyWithoutCanvas = FALSE
    /\ lastEvent = [kind |-> "none", handled |-> 0, after |-> 0]
    /\ injections = 0

\* the scan before main() has taken a step
ScanIdle ==
    /\ pc = "start"
    /\ idx = 1
    /\ results = << >>
    /\ exitCode = 0
    /\ report = << >>
    /\ reportWritten = FALSE
    /\ reachable = "unknown"
    /\ listening = FALSE
    /\ consoleErrorCount = 0
    /\ readyPromise = "pending"
    /\ ready = FALSE
    /\ totalErrors = 0
    /\ animationActivity = Null
    /\ signatureA = Null
    /\ signatureB = Null
    /\ motionDelta = Null
    /\ responseDelta = Null
    /\ noMotion = FALSE
    /\ noResponse = FALSE
    /\ pageGame = 0
    /\ health = FreshHealth
    /\ agentInjected = FALSE
    /\ hasCanvas = FALSE
    /\ readySent = FALSE
    /\ inflightReady = FALSE
    /\ inflightErrors = 0
    /\ fallbackCanvas = FALSE
    /\ keyPresses = 0
    /\ pressFailed = FALSE
    /\ seenBeforeRead = 0
    /\ thrownInProbe = 0
    /\ bursts = 0
    /\ frozen = FALSE
    /\ manifestFile = [i \in 1..Len(manifest) |-> manifest[i].status]
    /\ manifestWrites = 0
    /\ writeChanges = FALSE

\* no average frame rate is computed
FpsIdle == fpsProbe = Null

\* no movement key is derived, no activity is measured
KeyIdle == keyProbe = Null /\ activityProbe = Null

\* the scan of a one-entry manifest that is never started
ScanFixed ==
    /\ manifest = Window(1, 1)
    /\ ScanIdle
    /\ FpsIdle
    /\ KeyIdle

\* no frame has been scheduled in an embedded document
FrameIdle ==
    /\ frameNow = 0
    /\ metricsState = [lastTimestamp |-> << >>, frameCount |-> 0,
                       frameTimes |-> << >>, lastPost |-> 0,
                       firstPaint |-> << >>, start |-> 0]
    /\ callbackQueue = << >>
    /\ nativeHandles = 0
    /\ lastCall = [handle |-> 0]
    /\ callbackLog = [invoked |-> << >>, cancelled |-> {}]
    /\ metricsLog = << >>
    /\ lastMetrics = [posted |-> FALSE]
    /\ frameDeltas = << >>

\* no message has reached an agent
MessageIdle ==
    /\ storage = [readable |-> TRUE, pairs |-> << >>]
    /\ handled = [kind |-> "none"]

\* no host page listens
ListenerIdle ==
    /\ hostKind = "none"
    /\ hostState = [ready |-> FALSE, sized |-> FALSE, dpr |-> FALSE,
                    metrics |-> 0, console |-> 0, errors |-> 0,
                    focus |-> FALSE, highscores |-> FALSE]
    /\ inboundCount = 0
    /\ lastInbound = [kind |-> "none"]

\* no game page is mounted
GamePageIdle ==
    /\ route = "launcher"
    /\ hasNavigatedRef = FALSE
    /\ iframeFocusRef = FALSE
    /\ domFocus = "host"
    /\ hostControlsHiddenRef = FALSE
    /\ sentToGame = << >>
    /\ navigations = 0
    /\ lastKey = [key |-> "none"]

\* no signatures are compared
SignatureIdle ==
    /\ sigLeft = Null
    /\ sigRight = Null
    /\ deltaLR = Null
    /\ deltaRL = Null

Init ==
    /\ manifest \in Manifests
    /\ ScanIdle
    /\ FpsIdle
    /\ KeyIdle
    /\ AgentIdle
    /\ FrameIdle
    /\ MessageIdle
    /\ ListenerIdle
    /\ GamePageIdle
    /\ SignatureIdle

Next ==
    \/ Precheck
    \/ SkipExcluded
    \/ BeginProbe
    \/ Goto
    \/ GotoFails
    \/ EvaluateFails
    \/ ReadyResolves
    \/ ReadyTimesOut
    \/ FallbackProbe
    \/ ReadHealth
    \/ FrameWindowFreezes
    \/ MeasureActivity
    \/ CaptureA
    \/ CaptureB
    \/ PressKey
    \/ PressKeyFails
    \/ CaptureC
    \/ CaptureCFails
    \/ WriteReport
    \/ Reconcile
    \/ InjectBridge
    \/ CanvasAppears
    \/ sendReadyOnce
    \/ DeliverReady
    \/ DeliverError
    \/ UncaughtErrors
    \/ ConsoleErrors

Spec == Init /\ [][Next]_vars

----------------------------------------------------------------------------
(* The bridge agent in one embedded document (src/lib/bridgeScript.ts),     *)
(* injected by the host page (src/lib/injectBridge.ts).  One behaviour is   *)
(* the lifetime of one embedded document.  A layer is one run of the body   *)
(* of BRIDGE_SCRIPT past its guard: it wraps requestAnimationFrame and the  *)
(* console functions once more, adds one message listener and one set of    *)
(* readiness triggers, and owns one readySent.                              *)

\* a script body that installs itself whatever window.__arcadeBridge holds
NeverInstalled(bridge) == FALSE

\* if (window.__arcadeBridge) return;
AlreadyInstalled(bridge) == bridge

\* a document whose mutations reach no observer
NobodyNotified(n) == {}

\* the observers that receive a record of a mutation of the document:
\* observer.observe(document.documentElement, { childList, subtree })
ObserversNotified(n) == 1..n

\* an agent that posts arcade:ready at every trigger that finds a canvas
SendWheneverCanvas(sent, size) == size

\* sendReadyOnce: if (readySent) return; ... if (size) { ... }
ShouldSendReady(sent, size) == ~sent /\ size

\* sendReadyOnce called once in each layer of K; detectCanvas() is non-null
\* exactly when the document holds a canvas
SendReadyBy(K) ==
    LET senders == { k \in K : ShouldSendReady(k \in agentReadySent, canvasInDoc) }
    IN  /\ agentReadySent' = agentReadySent \cup senders
        /\ readyMessages' = readyMessages + Cardinality(senders)
        /\ readyWithoutCanvas' = (readyWithoutCanvas \/ (senders # {} /\ ~canvasInDoc))

noReady == << agentReadySent, readyMessages, readyWithoutCanvas >>

\* injectBridgeScript(iframe), then the script body when it is appended
injectBridgeScript ==
    /\ injections < MaxInjections
    /\ injections' = injections + 1
    /\ IF scriptMarker
       THEN UNCHANGED << scriptMarker, arcadeBridge, layers, timerPending,
                         mutationPending >>
       ELSE /\ scriptMarker' = TRUE
            /\ mutationPending' = mutationPending \cup ObserversNotified(layers)
            /\ IF AlreadyInstalled(arcadeBridge)
               THEN UNCHANGED << arcadeBridge, layers, timerPending >>
               ELSE /\ arcadeBridge' = TRUE
                    /\ layers' = layers + 1
                    /\ timerPending' = timerPending \cup { layers + 1 }
    /\ UNCHANGED << outsideAgent, noReady, docState, canvasInDoc, pendingFrame,
                    lastEvent >>

\* setTimeout(() => sendReadyOnce(), 0) of one layer fires
TimerFires ==
    \E k \in timerPending :
        /\ timerPending' = timerPending \ { k }
        /\ SendReadyBy({ k })
        /\ UNCHANGED << outsideAgent, scriptMarker, arcadeBridge, layers, docState,
                        canvasInDoc, mutationPending, pendingFrame, lastEvent,
                        injections >>

\* new MutationObserver(() => sendReadyOnce()): the callback of one layer
MutationObserved ==
    \E k \in mutationPending :
        /\ mutationPending' = mutationPending \ { k }
        /\ SendReadyBy({ k })
        /\ UNCHANGED << outsideAgent, scriptMarker, arcadeBridge, layers, docState,
                        canvasInDoc, timerPending, pendingFrame, lastEvent,
                        injections >>

\* document.addEventListener('DOMContentLoaded', () => sendReadyOnce())
DOMContentLoaded ==
    /\ docState = "loading"
    /\ docState' = "interactive"
    /\ SendReadyBy(1..layers)
    /\ UNCHANGED << outsideAgent, scriptMarker, arcadeBridge, layers, canvasInDoc,
                    timerPending, mutationPending, pendingFrame, lastEvent,
                    injections >>

\* window.addEventListener('load', () => sendReadyOnce())
WindowLoad ==
    /\ docState = "interactive"
    /\ docState' = "complete"
    /\ SendReadyBy(1..layers)
    /\ UNCHANGED << outsideAgent, scriptMarker, arcadeBridge, layers, canvasInDoc,
                    timerPending, mutationPending, pendingFrame, lastEvent,
                    injections >>

\* the embedded program adds its canvas to the document
ProgramAddsCanvas ==
    /\ ~canvasInDoc
    /\ canvasInDoc' = TRUE
    /\ mutationPending' = mutationPending \cup ObserversNotified(layers)
    /\ UNCHANGED << outsideAgent, noReady, scriptMarker, arcadeBridge, layers,
                    docState, timerPending, pendingFrame, lastEvent, injections >>

\* the embedded program rebuilds its document and drops the script elements
ProgramRemovesScripts ==
    /\ scriptMarker
    /\ scriptMarker' = FALSE
    /\ mutationPending' = mutationPending \cup ObserversNotified(layers)
    /\ UNCHANGED << outsideAgent, noReady, arcadeBridge, layers, docState,
                    canvasInDoc, timerPending, pendingFrame, lastEvent,
                    injections >>

\* the embedded program calls window.requestAnimationFrame(callback): every
\* layer installed so far wraps the callback once
ProgramRequestsFrame ==
    /\ pendingFrame = Null
    /\ pendingFrame' = [wrappers |-> layers, after |-> injections]
    /\ UNCHANGED << outsideAgent, noReady, scriptMarker, arcadeBridge, layers,
                    docState, canvasInDoc, timerPending, mutationPending,
                    lastEvent, injections >>

\* the frame arrives: each wrapper runs recordFrame and sendReadyOnce, then
\* the callback
AnimationFrame ==
    /\ pendingFrame # Null
    /\ pendingFrame' = Null
    /\ lastEvent' = [kind |-> "frame", handled |-> pendingFrame.wrappers,
                     after |-> pendingFrame.after]
    /\ SendReadyBy(1..pendingFrame.wrappers)
    /\ UNCHANGED << outsideAgent, scriptMarker, arcadeBridge, layers, docState,
                    canvasInDoc, timerPending, mutationPending, injections >>

\* postToGame(iframe, 'arcade:pause'): the message listener of every layer
\* posts arcade:pause-state
HostPostsControl ==
    /\ lastEvent' = [kind |-> "control", handled |-> layers, after |-> injections]
    /\ UNCHANGED << outsideAgent, noReady, scriptMarker, arcadeBridge, layers,
                    docState, canvasInDoc, timerPending, mutationPending,
                    pendingFrame, injections >>

\* the embedded program calls console.error: the wrapper of every layer posts
\* arcade:console and calls the function it replaced
ProgramCallsConsole ==
    /\ lastEvent' = [kind |-> "console", handled |-> layers, after |-> injections]
    /\ UNCHANGED << outsideAgent, noReady, scriptMarker, arcadeBridge, layers,
                    docState, canvasInDoc, timerPending, mutationPending,
                    pendingFrame, injections >>

AgentInit ==
    /\ ScanFixed
    /\ AgentIdle
    /\ FrameIdle
    /\ MessageIdle
    /\ ListenerIdle
    /\ GamePageIdle
    /\ SignatureIdle

AgentNext ==
    \/ injectBridgeScript
    \/ TimerFires
    \/ MutationObserved
    \/ DOMContentLoaded
    \/ WindowLoad
    \/ ProgramAddsCanvas
    \/ ProgramRemovesScripts
    \/ ProgramRequestsFrame
    \/ AnimationFrame
    \/ HostPostsControl
    \/ ProgramCallsConsole

AgentSpec == AgentInit /\ [][AgentNext]_vars

\* The event loop of the embedded document runs every due timer and every
\* pending observer callback.
AgentFairSpec ==
    AgentSpec /\ WF_vars(TimerFires) /\ WF_vars(MutationObserved)

----------------------------------------------------------------------------
(* Properties *)

Terminal == { "done", "unreachable", "aborted" }

\* the result of entry i was produced by a probe
Probed(i) == manifest[i].status # "missing-assets"

\* A probe has just pushed its result: the variables of that iteration still
\* hold the values the result was computed from.
JustProbed ==
    /\ pc = "loop"
    /\ Len(results) = idx - 1
    /\ idx > 1
    /\ Probed(idx - 1)

LastResult == results[Len(results)]
LastGame == manifest[idx - 1]

HasCause(r) == r.stalled \/ r.noMotion \/ r.noResponse \/ r.errors > 3

\* C1: for every probed entry the status is broken exactly when stalled,
\* noMotion, noResponse or errors > 3 holds in its result, and is the
\* previous persisted status otherwise.
C1_StatusFollowsVerdict ==
    \A i \in 1..Len(results) :
        Probed(i) =>
            /\ results[i].previousStatus = manifest[i].status
            /\ results[i].status = IF HasCause(results[i]) THEN "broken"
                                   ELSE manifest[i].status

\* C1 witness: a working entry is demoted by its error count alone.
C1_Witness ==
    \E i \in 1..Len(results) :
        /\ Probed(i)
        /\ results[i].errors > 3
        /\ ~results[i].stalled /\ ~results[i].noMotion /\ ~results[i].noResponse
        /\ results[i].previousStatus = "working"
        /\ results[i].status = "broken"

\* C2 (as claimed): in every result, whatever the previous status, a status
\* of broken comes with at least one of stalled, noMotion, noResponse,
\* errors > 3.
C2_BrokenHasCause ==
    \A i \in 1..Len(results) :
        results[i].status = "broken" => HasCause(results[i])

\* C2 (amended): a result whose status is broken while the previous status
\* was not broken has at least one of the four causes.
C2_DemotionHasCause ==
    \A i \in 1..Len(results) :
        (results[i].status = "broken" /\ results[i].previousStatus # "broken")
            => HasCause(results[i])

\* C2 witness: an entry that was not broken is reported broken.
C2_Witness ==
    \E i \in 1..Len(results) :
        /\ results[i].status = "broken"
        /\ results[i].previousStatus = "unknown"
        /\ results[i].noMotion

\* C3 (as claimed): a probed entry is stalled exactly when the readiness
\* signal did not arrive within the timeout.
C3_StalledIffNoSignal ==
    JustProbed => (LastResult.stalled <=> readyPromise = "timeout")

\* C3 (amended): a probed entry is stalled exactly when the readiness signal
\* did not arrive within the timeout and the fallback probe found no canvas.
C3_StalledIffNoSignalNoCanvas ==
    JustProbed =>
        (LastResult.stalled <=> (readyPromise = "timeout" /\ ~fallbackCanvas))

\* C3 witness: the signal timed out, the fallback probe found a canvas, and
\* the entry is not stalled.
C3_Witness ==
    /\ JustProbed
    /\ readyPromise = "timeout"
    /\ fallbackCanvas
    /\ ~LastResult.stalled

\* C4: after a readiness timeout the fallback probe decides: with a canvas
\* the entry is ready and the probe goes on to its later steps; without one
\* the result is not ready, stalled, broken, its note holds the 'not observed
\* within' reason, and the loop goes on with the next entry.
C4_TimeoutFallsBackToCanvasProbe ==
    (readyPromise = "timeout" /\ pc \notin { "fallback", "readHealth" }) =>
        IF fallbackCanvas
        THEN /\ ready
             /\ \/ pc \in { "measure", "sigA", "sigB", "press", "sigC" }
                \/ JustProbed /\ LastResult.ready /\ ~LastResult.stalled
        ELSE /\ JustProbed
             /\ ~LastResult.ready
             /\ LastResult.stalled
             /\ LastResult.status = "broken"
             /\ \E k \in 1..Len(LastResult.note) : LastResult.note[k] = IssueStalled
             /\ ENABLED (BeginProbe \/ SkipExcluded \/ WriteReport)

\* C4 witness: a stalled result has been pushed and a further entry waits.
C4_Witness ==
    /\ JustProbed
    /\ readyPromise = "timeout"
    /\ ~fallbackCanvas
    /\ LastResult.status = "broken"
    /\ idx <= Len(manifest)

\* C5 (as claimed): the error count of a result is the number of error
\* events raised while the entry's listeners were attached, each counted
\* once.
C5_EachErrorCountedOnce ==
    JustProbed => LastResult.errors = seenBeforeRead

\* C6 (as claimed): the error count of a result includes every error event
\* raised from the entry's navigation up to its last snapshot.
C6_ErrorsCoverWholeProbe ==
    JustProbed => LastResult.errors >= thrownInProbe

\* C7 (as claimed): a ready entry whose first movement input yields no key,
\* or whose key press failed, has noResponse set.
C7_NoKeyOrFailedPressIsNoResponse ==
    (JustProbed /\ LastResult.ready) =>
        /\ (Len(LastGame.movement) > 0 /\ selectFirstMovementKey(LastGame) = NullKey)
              => LastResult.noResponse
        /\ pressFailed => LastResult.noResponse

\* C8: for an entry that declares no movement control no key press is ever
\* attempted and noResponse stays false; if such an entry shows the same
\* frame in both snapshots, noMotion is set and the status is broken.
C8_NoMovementNoResponseTest ==
    /\ (pc \in ProbePcs /\ Len(manifest[idx].movement) = 0)
          => (pc \notin { "press", "sigC" } /\ keyPresses = 0 /\ ~pressFailed
              /\ ~noResponse)
    /\ (JustProbed /\ Len(LastGame.movement) = 0)
          => /\ keyPresses = 0 /\ ~pressFailed
             /\ ~LastResult.noResponse
             /\ (LastResult.ready /\ motionDelta # Null /\ motionDelta.num = 0)
                   => (LastResult.noMotion /\ LastResult.status = "broken")

\* C8 witness: an entry without movement control showed a static frame.
C8_Witness ==
    /\ JustProbed
    /\ Len(LastGame.movement) = 0
    /\ LastResult.ready
    /\ motionDelta # Null
    /\ motionDelta.num = 0
    /\ TickCount(animationActivity) > 30
    /\ LastResult.noMotion
    /\ ~LastResult.noResponse
    /\ LastResult.status = "broken"

\* C9 (as claimed): when a snapshot is missing or two snapshots cannot be
\* compared, the flag of that comparison is raised.
C9_CaptureFailureIsFlagged ==
    (JustProbed /\ LastResult.ready) =>
        /\ motionDelta = Null => LastResult.noMotion
        /\ (keyPresses > 0 /\ responseDelta = Null) => LastResult.noResponse

\* C10 (as claimed): a scan that passed the reachability check ends with a
\* report that lists every entry exactly once.
C10_ScanCompletesWithFullReport ==
    (reachable = "ok" /\ pc \in Terminal) =>
        /\ pc = "done"
        /\ reportWritten
        /\ Len(report) = Len(manifest)
        /\ \A i \in 1..Len(report) : report[i].id = i

----------------------------------------------------------------------------

\* the steps by which an await of the probe after the readiness wait settles
\* while page.evaluate works
ProbeStepSettles ==
    \/ FallbackProbe \/ ReadHealth \/ MeasureActivity \/ CaptureA \/ CaptureB
    \/ PressKey \/ PressKeyFails \/ CaptureC \/ CaptureCFails

AfterReadinessPcs == { "fallback", "readHealth", "measure", "sigA", "sigB",
                       "press", "sigC" }

\* C11 (as claimed): after the readiness wait every step of a probe settles
\* whatever the embedded document does, also when it delivers no further
\* animation frame: the driver never waits on the embedded document.
C11_NoWaitOnEmbeddedDocument ==
    pc \in AfterReadinessPcs => ENABLED ProbeStepSettles

InitialFile == [i \in 1..Len(manifest) |-> manifest[i].status]
ChangedOnDisk(i) == manifestFile[i] # manifest[i].status
ResultOf(i) == results[CHOOSE k \in 1..Len(results) : results[k].id = i]
HasResult(i) == \E k \in 1..Len(results) : results[k].id = i

\* C12: the persisted status of an entry changes only with the write option,
\* only when its result is broken and its previous status was not, and only
\* to broken; such an entry is changed once reconciliation has run; entries
\* already broken stay as they are; the manifest file is written only when
\* an entry changed, and never without the write option.
C12_WriteOnlyDemotes ==
    /\ \A i \in 1..Len(manifest) :
        /\ ChangedOnDisk(i) =>
              /\ writeChanges
              /\ manifestFile[i] = "broken"
              /\ HasResult(i)
              /\ ResultOf(i).status = "broken"
              /\ ResultOf(i).previousStatus # "broken"
        /\ manifest[i].status = "broken" => manifestFile[i] = "broken"
        /\ (pc = "done" /\ writeChanges /\ ResultOf(i).status = "broken")
              => manifestFile[i] = "broken"
    /\ manifestWrites > 0 =>
          (writeChanges /\ \E i \in 1..Len(manifest) : ChangedOnDisk(i))
    /\ manifestWrites <= 1
    /\ ~writeChanges => (manifestWrites = 0 /\ manifestFile = InitialFile)

\* C12 witness: a scan with the write option demoted one entry and left an
\* entry that was already broken as it was.
C12_Witness ==
    /\ pc = "done"
    /\ writeChanges
    /\ manifestWrites = 1
    /\ \E i, j \in 1..Len(manifest) :
        /\ ChangedOnDisk(i)
        /\ manifest[j].status = "broken"
        /\ results[j].status = "broken"

\* C13: an entry whose status is missing-assets is never navigated to nor
\* probed, its result has status and previousStatus missing-assets, ready
\* false and the three flags true, and its persisted status is never
\* rewritten.
C13_MissingAssetsPassThrough ==
    /\ pageGame # 0 => manifest[pageGame].status # "missing-assets"
    /\ pc \in PageLivePcs => manifest[idx].status # "missing-assets"
    /\ \A i \in 1..Len(results) :
        manifest[i].status = "missing-assets" =>
            /\ results[i].status = "missing-assets"
            /\ results[i].previousStatus = "missing-assets"
            /\ ~results[i].ready
            /\ results[i].stalled /\ results[i].noMotion /\ results[i].noResponse
    /\ \A i \in 1..Len(manifest) :
        manifest[i].status = "missing-assets" => manifestFile[i] = "missing-assets"

\* C13 witness: a scan with the write option that rewrote the manifest file
\* has passed over an excluded entry.
C13_Witness ==
    /\ pc = "done"
    /\ manifestWrites = 1
    /\ \E i \in 1..Len(results) :
        /\ manifest[i].status = "missing-assets"
        /\ results[i].stalled
        /\ manifestFile[i] = "missing-assets"

\* C14: when the pre-check finds the endpoint unreachable the scan ends at
\* once: no page is opened, no result produced, no report and no manifest
\* file written, and the exit code signals failure.
C14_UnreachableAborts ==
    reachable \in { "refused", "error" } =>
        /\ pc \in { "unreachable", "aborted" }
        /\ results = << >>
        /\ ~reportWritten /\ report = << >>
        /\ manifestWrites = 0 /\ manifestFile = InitialFile
        /\ pageGame = 0 /\ ~listening
        /\ exitCode # 0

\* C14 witness: the endpoint refused the connection.
C14_Witness ==
    /\ reachable = "refused"
    /\ pc = "unreachable"
    /\ exitCode = 1

Flagged == \E i \in 1..Len(results) : results[i].status = "broken"

\* C15 (as claimed): the exit code tells the three outcomes apart: a scan
\* aborted at the pre-check, a completed scan with an entry flagged broken,
\* and a completed scan with no entry flagged end with three different codes
\* (the aborted scan with 1, the clean scan with 0).
C15_ExitSignalTellsOutcomes ==
    /\ pc = "unreachable" => exitCode = 1
    /\ (pc = "done" /\ ~Flagged) => exitCode = 0
    /\ (pc = "done" /\ Flagged) => exitCode \notin { 0, 1 }

\* C16 (as claimed): an entry whose own page raised no error event from its
\* navigation on has an error count of 0, whatever the page of the previous
\* entry raised.
C16_NoCrossEntryLeak ==
    (JustProbed /\ thrownInProbe = 0) => LastResult.errors = 0

\* C17: entries are probed one at a time in manifest order: while an entry
\* is probed every earlier entry has its result and no later entry has one,
\* the loaded page is never that of a later entry, results are in manifest
\* order, and a completed scan has one result per entry.
C17_SequentialInOrder ==
    /\ \A i \in 1..Len(results) : results[i].id = i
    /\ Len(results) <= Len(manifest)
    /\ pc \in PageLivePcs =>
          /\ idx <= Len(manifest)
          /\ Len(results) = idx - 1
          /\ pageGame \in 0..idx
    /\ pc \in ProbePcs => pageGame = idx
    /\ pc = "loop" => Len(results) = idx - 1
    /\ pc \in { "reconcile", "done" } =>
          (Len(results) = Len(manifest) /\ report = results)

\* C17 witness: a completed scan of two probed entries.
C17_Witness ==
    /\ pc = "done"
    /\ Len(results) = 2
    /\ Probed(1) /\ Probed(2)
    /\ results[2].id = 2

\* C18: in one embedded document the agent posts arcade:ready at most once,
\* whatever triggers fire and however often, and only while the document
\* holds a canvas.
C18_ReadyAtMostOnce ==
    /\ readyMessages <= 1
    /\ ~readyWithoutCanvas
    /\ readyMessages = 1 => (canvasInDoc /\ agentReadySent # {})

\* C18 witness: ready was posted once and every kind of trigger has fired
\* since the canvas is there.
C18_Witness ==
    /\ readyMessages = 1
    /\ canvasInDoc
    /\ layers = 1
    /\ timerPending = {} /\ mutationPending = {}
    /\ docState = "complete"
    /\ lastEvent.kind = "frame" /\ lastEvent.handled = 1

C20_InjectionIdempotent ==
    /\ injections >= 1 => (layers = 1 /\ arcadeBridge)
    /\ (lastEvent.kind # "none" /\ lastEvent.after >= 1) => lastEvent.handled = 1

\* C20 witness: after two injections, the second into a document whose
\* script elements were dropped (the script is there again, and with no
\* canvas added the pending mutation record stems from those elements), a
\* control message was answered once.
C20_Witness ==
    /\ injections = 2
    /\ scriptMarker
    /\ ~canvasInDoc
    /\ mutationPending # {}
    /\ lastEvent.kind = "control"
    /\ lastEvent.after = 2
    /\ lastEvent.handled = 1

----------------------------------------------------------------------------
(* The motion verdict *)

\* C28: for every entry that reached readiness, the result flags noMotion
\* exactly when the delta between the first two signatures is a number
\* below 0.01 or the tick count of the activity window is at most 30.
C28_NoMotionIffSmallDeltaOrFewTicks ==
    (JustProbed /\ LastResult.ready) =>
        (LastResult.noMotion <=>
            \/ (motionDelta # Null /\ motionDelta.num * 100 < motionDelta.den)
            \/ TickCount(animationActivity) <= 30)

\* a ready entry whose frames differ by more than 1% is flagged because the
\* window counted exactly 30 ticks
C28_Witness ==
    /\ JustProbed
    /\ LastResult.ready
    /\ LastResult.noMotion
    /\ motionDelta # Null
    /\ motionDelta.num * 100 >= motionDelta.den
    /\ animationActivity # Null
    /\ animationActivity.tickCount = 30

----------------------------------------------------------------------------
(* computeSignatureDelta as a function of its two arguments *)

\* luminance of a black, a mid-grey and a white pixel
Luminances == { 0, 128, MaxLuminance }

\* What captureCanvasSignature returns: null, or the downscaled frame of
\* width * height pixels with one luminance per pixel.
FrameSignatures ==
    { Null } \cup
    UNION { { [width |-> d[1], height |-> d[2], luminances |-> l] :
                l \in [1..(d[1] * d[2]) -> Luminances] } :
            d \in { e \in (1..MaxPixels) \X (1..MaxPixels) : e[1] * e[2] <= MaxPixels } }

\* the deltas are not computed yet
Pending == [pending |-> TRUE]

SignatureInit ==
    /\ ScanFixed
    /\ AgentIdle
    /\ FrameIdle
    /\ MessageIdle
    /\ ListenerIdle
    /\ GamePageIdle
    /\ sigLeft \in FrameSignatures
    /\ sigRight \in FrameSignatures
    /\ deltaLR = Pending
    /\ deltaRL = Pending

\* computeSignatureDelta is applied to the pair, in both orders
CompareSignatures ==
    /\ deltaLR = Pending
    /\ deltaLR' = computeSignatureDelta(sigLeft, sigRight)
    /\ deltaRL' = computeSignatureDelta(sigRight, sigLeft)
    /\ UNCHANGED << outsideSignature, sigLeft, sigRight >>

SignatureNext == CompareSignatures

SignatureSpec == SignatureInit /\ [][SignatureNext]_vars

Compared == deltaLR # Pending

SameDimensions(a, b) ==
    a # Null /\ b # Null /\ a.width = b.width /\ a.height = b.height

\* C29: two equal signatures have delta exactly 0; when either signature is
\* missing or the dimensions differ the result is the non-numeric value;
\* for signatures of the same dimensions the delta is a number in [0,1]
\* and is the same in both argument orders.
C29_DeltaZeroIncomparableBoundedSymmetric ==
    Compared =>
        /\ (sigLeft # Null /\ sigLeft = sigRight) =>
               (deltaLR # Null /\ deltaLR.num = 0)
        /\ ~SameDimensions(sigLeft, sigRight) =>
               (deltaLR = Null /\ deltaRL = Null)
        /\ SameDimensions(sigLeft, sigRight) =>
               /\ deltaLR # Null
               /\ deltaLR.den > 0
               /\ 0 <= deltaLR.num
               /\ deltaLR.num <= deltaLR.den
               /\ deltaRL = deltaLR

\* two different frames of the same dimensions and two pixels were compared
C29_Witness ==
    /\ Compared
    /\ SameDimensions(sigLeft, sigRight)
    /\ sigLeft # sigRight
    /\ Len(sigLeft.luminances) = 2
    /\ deltaLR.num > 0
    /\ deltaLR.num < deltaLR.den

----------------------------------------------------------------------------
(* The agent's requestAnimationFrame wrapper and its metrics throttle.  The *)
(* agent is installed once in a document that has no canvas yet; the        *)
(* embedded program schedules and cancels frame callbacks, and the native   *)
(* primitive runs the callbacks of a frame one after the other with the     *)
(* timestamp of that frame.                                                  *)

\* gaps between two animation frames that run a callback (ms): 4 ms is a
\* 250 Hz display
FrameStepsMs == { 4, 96, 100 }

\* performance.now() when the script body runs, after the frame at 0
InjectionTimes == { 0, 2 }

\* an agent that posts arcade:metrics at every frame
PostEveryFrame(timestamp, lastPost) == TRUE

\* if (timestamp - metricsState.lastPost >= 100)
ShouldPostMetrics(timestamp, lastPost) == timestamp - lastPost >= ThrottleMs

\* a window that is never trimmed
KeepAll(times) == times

\* if (metricsState.frameTimes.length > 60) metricsState.frameTimes.shift()
Trimmed(times) == IF Len(times) > FrameWindow THEN Tail(times) ELSE times

\* the payload of arcade:metrics: fps and frameTimeMs in hundredths, and
\* frameSamples; window is the frameTimes it was computed from
MetricsPayload(times) ==
    LET frameCount == Len(times)
        sum == Sum(times)
    IN  [posted |-> TRUE,
         window |-> times,
         fps |-> IF frameCount > 0 /\ sum > 0
                 THEN Hundredths(1000 * frameCount, sum) ELSE 0,
         frameTimeMs |-> IF frameCount > 0 THEN Hundredths(sum, frameCount) ELSE 0,
         frameSamples |-> frameCount]

\* recordFrame(timestamp): the metricsState it leaves, whether it posted
\* arcade:metrics and with what payload.  performance.now() in the callback
\* is taken to be the timestamp of the frame.
recordFrame(state, timestamp) ==
    LET counted ==
            IF state.lastTimestamp # << >>
            THEN [state EXCEPT
                    !.frameCount = @ + 1,
                    !.frameTimes = Trimmed(Append(@, timestamp - state.lastTimestamp[1])),
                    !.firstPaint = IF @ = << >> THEN << timestamp - state.start >>
                                   ELSE @]
            ELSE state
        stamped == [counted EXCEPT !.lastTimestamp = << timestamp >>]
    IN  IF ShouldPostMetrics(timestamp, state.lastPost)
        THEN [state |-> [stamped EXCEPT !.frameCount = 0, !.lastPost = timestamp],
              posted |-> TRUE,
              payload |-> MetricsPayload(stamped.frameTimes)]
        ELSE [state |-> stamped, posted |-> FALSE, payload |-> [posted |-> FALSE]]

\* the deltas recordFrame has seen, with the one of this call
DeltasWith(state, timestamp) ==
    IF state.lastTimestamp # << >>
    THEN Append(frameDeltas, timestamp - state.lastTimestamp[1])
    ELSE frameDeltas

\* a wrapper that calls the callback before recordFrame and sendReadyOnce
CallbackRunsFirst(before, after) == before

\* the state the callback runs in: recordFrame(timestamp) and sendReadyOnce()
\* have returned
CallbackRunsIn(before, after) == after

installed == << scriptMarker, arcadeBridge, layers, docState, timerPending,
               pendingFrame, lastEvent, injections >>

\* the agent has been installed in a document that holds no canvas, and no
\* frame has run since
AgentInstalled ==
    /\ scriptMarker = TRUE
    /\ arcadeBridge = TRUE
    /\ layers = 1
    /\ agentReadySent = {}
    /\ docState = "complete"
    /\ canvasInDoc = FALSE
    /\ timerPending = {}
    /\ mutationPending = {}
    /\ pendingFrame = Null
    /\ readyMessages = 0
    /\ readyWithoutCanvas = FALSE
    /\ lastEvent = [kind |-> "none", handled |-> 0, after |-> 0]
    /\ injections = 1
    /\ frameNow = 0
    /\ \E now \in InjectionTimes :
          metricsState = [lastTimestamp |-> << >>, frameCount |-> 0,
                          frameTimes |-> << >>, lastPost |-> now,
                          firstPaint |-> << >>, start |-> now]
    /\ callbackQueue = << >>
    /\ nativeHandles = 0
    /\ lastCall = [handle |-> 0]
    /\ callbackLog = [invoked |-> << >>, cancelled |-> {}]
    /\ metricsLog = << >>
    /\ lastMetrics = [posted |-> FALSE]
    /\ frameDeltas = << >>
    /\ MessageIdle
    /\ ListenerIdle
    /\ GamePageIdle
    /\ SignatureIdle

FrameInit ==
    /\ ScanFixed
    /\ AgentInstalled

\* window.requestAnimationFrame(callback) of the embedded program: the native
\* primitive queues the wrapping closure and the wrapper returns its handle
wrappedRequestAnimationFrame ==
    /\ nativeHandles < MaxSchedulings
    /\ nativeHandles' = nativeHandles + 1
    /\ callbackQueue' = Append(callbackQueue,
                               [handle |-> nativeHandles + 1,
                                returned |-> nativeHandles + 1,
                                due |-> FALSE])
    /\ UNCHANGED << outsideFrame, agentVars, frameNow, metricsState, lastCall,
                    callbackLog, metricsLog, lastMetrics, frameDeltas >>

\* window.cancelAnimationFrame(handle) with a handle the wrapper returned
ProgramCancelsFrame ==
    \E i \in 1..Len(callbackQueue) :
        LET kept == { j \in 1..Len(callbackQueue) :
                        callbackQueue[j].handle # callbackQueue[i].returned }
        IN  /\ callbackQueue' =
                  [j \in 1..Cardinality(kept) |->
                      callbackQueue[CHOOSE k \in kept :
                                        Cardinality({ l \in kept : l <= k }) = j]]
            /\ callbackLog' =
                  [callbackLog EXCEPT !.cancelled =
                      @ \cup { callbackQueue[j].handle :
                                 j \in (1..Len(callbackQueue)) \ kept }]
            /\ UNCHANGED << outsideFrame, agentVars, frameNow, metricsState,
                            nativeHandles, lastCall, metricsLog, lastMetrics,
                            frameDeltas >>

\* The next animation frame that has a callback to run begins: the
\* callbacks queued so far are the ones it runs.  The agent sees nothing of
\* a frame for which no callback is queued.
FrameBegins ==
    /\ Len(callbackQueue) > 0
    /\ \A i \in 1..Len(callbackQueue) : ~callbackQueue[i].due
    /\ \E d \in FrameStepsMs :
        /\ frameNow + d <= MaxFrameTime
        /\ frameNow' = frameNow + d
    /\ callbackQueue' = [i \in 1..Len(callbackQueue) |->
                            [callbackQueue[i] EXCEPT !.due = TRUE]]
    /\ UNCHANGED << outsideFrame, agentVars, metricsState, nativeHandles,
                    lastCall, callbackLog, metricsLog, lastMetrics, frameDeltas >>

\* the native primitive calls the closure of the wrapper:
\* recordFrame(timestamp); sendReadyOnce(); callback(timestamp)
FrameCallback ==
    /\ Len(callbackQueue) > 0
    /\ callbackQueue[1].due
    /\ LET recorded == recordFrame(metricsState, frameNow)
           before == [lastTimestamp |-> metricsState.lastTimestamp,
                      readySent |-> 1 \in agentReadySent,
                      canvas |-> canvasInDoc]
           after == [lastTimestamp |-> recorded.state.lastTimestamp,
                     readySent |-> 1 \in agentReadySent',
                     canvas |-> canvasInDoc]
       IN  /\ metricsState' = recorded.state
           /\ metricsLog' = IF recorded.posted THEN Append(metricsLog, frameNow)
                                                ELSE metricsLog
           /\ lastMetrics' = IF recorded.posted THEN recorded.payload ELSE lastMetrics
           /\ frameDeltas' = DeltasWith(metricsState, frameNow)
           /\ SendReadyBy({ 1 })
           /\ lastCall' = [handle |-> callbackQueue[1].handle,
                            frame |-> frameNow,
                            timestamp |-> frameNow,
                            sees |-> CallbackRunsIn(before, after)]
    /\ callbackLog' = [callbackLog EXCEPT !.invoked = Append(@, callbackQueue[1].handle)]
    /\ callbackQueue' = Tail(callbackQueue)
    /\ UNCHANGED << outsideFrame, installed, canvasInDoc, mutationPending,
                    frameNow, nativeHandles >>

FrameNext ==
    \/ wrappedRequestAnimationFrame
    \/ ProgramCancelsFrame
    \/ FrameBegins
    \/ FrameCallback
    \/ ProgramAddsCanvas
    \/ MutationObserved

FrameSpec == FrameInit /\ [][FrameNext]_vars

\* number of times handle h occurs in a sequence of handles
Occurrences(h, handles) == Cardinality({ i \in 1..Len(handles) : handles[i] = h })

Queued(h) == \E i \in 1..Len(callbackQueue) : callbackQueue[i].handle = h

\* C21: a callback scheduled through the wrapper is still queued, was
\* cancelled by the program, or has been invoked exactly once; it is invoked
\* with the timestamp of its frame, after recordFrame has stamped that frame
\* and after the readiness attempt; and the handle the wrapper returns is
\* the handle of the native primitive.
C21_CallbackOnceAfterBookkeeping ==
    /\ \A h \in 1..nativeHandles :
          /\ Occurrences(h, callbackLog.invoked) <= 1
          /\ (Occurrences(h, callbackLog.invoked) = 1)
                <=> (~Queued(h) /\ h \notin callbackLog.cancelled)
    /\ \A i \in 1..Len(callbackQueue) :
          callbackQueue[i].returned = callbackQueue[i].handle
    /\ \A i \in 1..Len(callbackLog.invoked) :
          callbackLog.invoked[i] \in 1..nativeHandles
    /\ lastCall.handle # 0 =>
          /\ lastCall.timestamp = lastCall.frame
          /\ lastCall.sees.lastTimestamp = << lastCall.frame >>
          /\ lastCall.sees.canvas => lastCall.sees.readySent

\* a callback ran in a frame whose readiness attempt was the first to find
\* the canvas, while another callback was still queued
C21_Witness ==
    /\ lastCall.handle # 0
    /\ lastCall.sees.canvas
    /\ mutationPending # {}
    /\ readyMessages = 1
    /\ Len(callbackLog.invoked) = 2
    /\ Len(callbackQueue) = 1

\* C22: two consecutive arcade:metrics messages are at least 100 ms apart in
\* frame-timestamp time, whatever the frame rate, and the first one is not
\* posted before 100 ms have passed since the script was injected.
C22_MetricsAtMostTenPerSecond ==
    /\ \A i \in 1..Len(metricsLog) - 1 : metricsLog[i + 1] - metricsLog[i] >= 100
    /\ Len(metricsLog) > 0 => metricsLog[1] - metricsState.start >= 100

\* two metrics messages were posted, the first exactly 100 ms after the
\* injection and after an earlier frame that posted none
C22_Witness ==
    /\ Len(metricsLog) = 2
    /\ metricsLog[1] - metricsState.start = 100
    /\ Len(callbackLog.invoked) >= 3

----------------------------------------------------------------------------
(* The rolling window of recordFrame over a long run.  A program whose loop *)
(* schedules itself again in every callback gives recordFrame one timestamp *)
(* per frame; the display runs at a steady rate that changes at most once.  *)

\* callbacks of one run
MaxFrames == 62

\* gaps between two callbacks (ms): 0 is a second callback of the same frame
WindowStepsMs == { 0, 16, 100 }

\* the last n entries of s
LastOf(s, n) == SubSeq(s, Len(s) - n + 1, Len(s))

Steady == \A i \in 1..Len(frameDeltas) : frameDeltas[i] = frameDeltas[1]

WindowInit == FrameInit

\* the closure of the wrapper runs d ms after the previous one:
\* recordFrame(timestamp); sendReadyOnce(); callback(timestamp), and the
\* callback schedules itself again
LoopCallback(d) ==
    /\ Len(frameDeltas) < MaxFrames
    /\ frameNow' = frameNow + d
    /\ LET recorded == recordFrame(metricsState, frameNow')
       IN  /\ metricsState' = recorded.state
           /\ metricsLog' = IF recorded.posted THEN Append(metricsLog, frameNow')
                                                ELSE metricsLog
           /\ lastMetrics' = IF recorded.posted THEN recorded.payload ELSE lastMetrics
           /\ frameDeltas' = DeltasWith(metricsState, frameNow')
    /\ SendReadyBy({ 1 })
    /\ UNCHANGED << outsideFrame, installed, canvasInDoc, mutationPending,
                    callbackQueue, nativeHandles, lastCall, callbackLog >>

\* the first callback after the injection
FirstCallback ==
    /\ metricsState.lastTimestamp = << >>
    /\ \E d \in WindowStepsMs : LoopCallback(d)

\* the next callback comes after the same gap as the one before
SteadyCallback ==
    /\ frameDeltas # << >>
    /\ LoopCallback(frameDeltas[Len(frameDeltas)])

\* the gap changes, for the first time in this run
RateChanges ==
    /\ metricsState.lastTimestamp # << >>
    /\ Steady
    /\ \E d \in WindowStepsMs :
          /\ frameDeltas # << >> => d # frameDeltas[1]
          /\ LoopCallback(d)

WindowNext ==
    \/ FirstCallback
    \/ SteadyCallback
    \/ RateChanges

WindowSpec == WindowInit /\ [][WindowNext]_vars

\* C33: after any sequence of animation callbacks the window holds the most
\* recent deltas and at most 60 of them; every metrics message has
\* frameSamples between 0 and 60 and an fps that is not negative, and that
\* is 0 when its window is empty or the mean of its window is not positive.
C33_WindowOfSixtyMostRecent ==
    /\ Len(metricsState.frameTimes) <= FrameWindow
    /\ metricsState.frameTimes =
          LastOf(frameDeltas, Min({ FrameWindow, Len(frameDeltas) }))
    /\ lastMetrics.posted =>
          /\ lastMetrics.frameSamples \in 0..FrameWindow
          /\ lastMetrics.fps >= 0
          /\ (lastMetrics.window = << >> \/ Sum(lastMetrics.window) <= 0)
                => lastMetrics.fps = 0

\* more than 60 deltas were seen at two different rates, the oldest has left
\* the window, and the last message was computed from a full window
C33_Witness ==
    /\ Len(frameDeltas) > FrameWindow
    /\ frameDeltas[1] # frameDeltas[Len(frameDeltas)]
    /\ Len(metricsState.frameTimes) = FrameWindow
    /\ lastMetrics.posted
    /\ lastMetrics.frameSamples = FrameWindow
    /\ lastMetrics.fps > 0

----------------------------------------------------------------------------
(* The agent's message listener and its console wrappers.  One agent is     *)
(* installed in the embedded document; the document receives messages from  *)
(* any window, and the embedded program calls the console.                  *)

PARENT_SOURCE == "arcade-parent"
SOURCE == "arcade-bridge"
ORIGIN == "https://arcade.example"

\* event.origin of a message
Origins == { ORIGIN, "https://elsewhere.example" }

\* data.type of a message; "" stands for a missing or empty type
MessageTypes ==
    { "arcade:focus", "arcade:blur", "arcade:pause", "arcade:resume",
      "arcade:toggle-help", "arcade:request-highscores", "arcade:other", "" }

\* event.data of a message: nothing, or an object with source and type
MessageData ==
    { Null } \cup
    [source : { PARENT_SOURCE, SOURCE, "stranger" }, type : MessageTypes]

\* localStorage of the embedded document: its pairs in key(i) order, and
\* whether reading window.localStorage is allowed.  The empty string is a
\* key like any other.
StorageKeys == { "", "best" }

StoragePairs ==
    { << >> } \cup
    { << [key |-> k, value |-> "1"] >> : k \in StorageKeys } \cup
    { << [key |-> k[1], value |-> "1"], [key |-> k[2], value |-> "2"] >> :
        k \in { l \in StorageKeys \X StorageKeys : l[1] # l[2] } }

Storages == [readable : BOOLEAN, pairs : StoragePairs]

\* a listener that accepts a message from any origin
AcceptedFromAnyOrigin(data, origin) ==
    /\ data # Null
    /\ data.source = PARENT_SOURCE
    /\ data.type # ""

\* if (!data || data.source !== PARENT_SOURCE) return;
\* if (event.origin !== ORIGIN) return;  if (!type) return;
Accepted(data, origin) ==
    /\ data # Null
    /\ data.source = PARENT_SOURCE
    /\ origin = ORIGIN
    /\ data.type # ""

Dispatch(target, name) == [effect |-> "dispatch", target |-> target, name |-> name]

Post(type, payload) == [effect |-> "post", type |-> type, payload |-> payload]

\* a listener that dispatches the events and posts nothing
ControlEffectsWithoutMessage(type) ==
    << Dispatch("window", type), Dispatch("document", type) >>

\* case 'arcade:focus' / 'arcade:blur' / 'arcade:pause' / 'arcade:resume'
ControlEffects(type) ==
    << Dispatch("window", type), Dispatch("document", type),
       Post("arcade:pause-state", [state |-> type]) >>

\* case 'arcade:toggle-help'
ToggleHelpEffects ==
    << Dispatch("window", "arcade:toggle-help"),
       Dispatch("document", "arcade:toggle-help") >>

\* the loop over window.localStorage: if (!key) continue; entries.push(...)
RECURSIVE EntriesOf(_)
EntriesOf(pairs) ==
    IF Len(pairs) = 0 THEN << >>
    ELSE IF pairs[1].key = "" THEN EntriesOf(Tail(pairs))
    ELSE << pairs[1] >> \o EntriesOf(Tail(pairs))

\* case 'arcade:request-highscores'
HighscoreEffects(store) ==
    IF store.readable
    THEN << Post("arcade:highscores", [entries |-> EntriesOf(store.pairs)]) >>
    ELSE << Post("arcade:error", [message |-> "Failed to enumerate localStorage"]),
            Post("arcade:highscores", [entries |-> << >>]) >>

\* the body of the message listener: what it does, in order
onMessage(data, origin, store) ==
    IF ~Accepted(data, origin) THEN << >>
    ELSE IF data.type \in { "arcade:focus", "arcade:blur", "arcade:pause",
                            "arcade:resume" }
         THEN ControlEffects(data.type)
    ELSE IF data.type = "arcade:toggle-help" THEN ToggleHelpEffects
    ELSE IF data.type = "arcade:request-highscores" THEN HighscoreEffects(store)
    ELSE << >>

\* Values the embedded program passes to the console: a string, a number,
\* an Error, a plain object, an object that refers to itself
\* (JSON.stringify throws), a function, and an object that refers to itself
\* and has no prototype (JSON.stringify and String both throw).
ConsoleValues ==
    { "string", "number", "error", "object", "circular", "function", "hostile" }

ConsoleLevels == { "log", "info", "warn", "error" }

ConsoleArgs == UNION { [1..n -> ConsoleValues] : n \in 0..MaxArgs }

\* the try block of serialize throws for this value
SerializationFails(value) == value \in { "circular", "hostile" }

\* String(value) throws for this value
StringFails(value) == value = "hostile"

\* a serialize whose catch block rethrows
serializeWithoutFallback(value) ==
    IF value \in { "string", "number" } THEN [threw |-> FALSE, form |-> "same", of |-> value]
    ELSE IF value = "error" THEN [threw |-> FALSE, form |-> "fields", of |-> value]
    ELSE IF value = "function" THEN [threw |-> FALSE, form |-> "text", of |-> value]
    ELSE IF ~SerializationFails(value) THEN [threw |-> FALSE, form |-> "json", of |-> value]
    ELSE [threw |-> TRUE]

\* serialize(value): the value itself, the { name, message, stack } of an
\* Error, the JSON copy of an object, or the String() text; the catch block
\* falls back to the String() text
serialize(value) ==
    IF value \in { "string", "number" } THEN [threw |-> FALSE, form |-> "same", of |-> value]
    ELSE IF value = "error" THEN [threw |-> FALSE, form |-> "fields", of |-> value]
    ELSE IF value = "function" THEN [threw |-> FALSE, form |-> "text", of |-> value]
    ELSE IF ~SerializationFails(value) THEN [threw |-> FALSE, form |-> "json", of |-> value]
    ELSE IF ~StringFails(value) THEN [threw |-> FALSE, form |-> "text", of |-> value]
    ELSE [threw |-> TRUE]

\* console[level](...args) after the agent replaced it:
\* try { post('arcade:console', { level, args: args.map(serialize) }) }
\* catch { }  original?.apply(console, args)
consoleWrapper(level, args) ==
    LET mapped == [i \in 1..Len(args) |-> serialize(args[i])]
        threw == \E i \in 1..Len(args) : mapped[i].threw
        original == [effect |-> "original", level |-> level, args |-> args]
    IN  IF threw THEN << original >>
        ELSE << Post("arcade:console", [level |-> level, args |-> mapped]),
                original >>

MessageInit ==
    /\ ScanFixed
    /\ AgentIdle
    /\ FrameIdle
    /\ ListenerIdle
    /\ GamePageIdle
    /\ SignatureIdle
    /\ storage \in Storages
    /\ handled = [kind |-> "none"]

\* A message event reaches the listener of the embedded window.  The
\* listener and the console wrappers keep no state of their own, so a
\* behaviour follows one event.
MessageArrives ==
    /\ handled.kind = "none"
    /\ \E data \in MessageData, origin \in Origins :
          handled' = [kind |-> "message", data |-> data, origin |-> origin,
                      effects |-> onMessage(data, origin, storage)]
    /\ UNCHANGED << outsideMessage, storage >>

\* the embedded program calls console.log, .info, .warn or .error
ConsoleCall ==
    /\ handled.kind = "none"
    /\ \E level \in ConsoleLevels, args \in ConsoleArgs :
          handled' = [kind |-> "console", level |-> level, args |-> args,
                      effects |-> consoleWrapper(level, args)]
    /\ UNCHANGED << outsideMessage, storage >>

MessageNext == MessageArrives \/ ConsoleCall

MessageSpec == MessageInit /\ [][MessageNext]_vars

Posts(effects) == SelectSeq(effects, LAMBDA e : e.effect = "post")

Dispatches(effects) == SelectSeq(effects, LAMBDA e : e.effect = "dispatch")

\* the listener handled a message that passes its three checks
AcceptedMessage ==
    /\ handled.kind = "message"
    /\ handled.data # Null
    /\ handled.data.source = "arcade-parent"
    /\ handled.origin = ORIGIN
    /\ handled.data.type # ""

\* C23: for an accepted focus, blur, pause or resume message the agent
\* dispatches an event of that name on window, then on document, and then
\* posts exactly one arcade:pause-state whose state is the received type;
\* for an accepted toggle-help it dispatches the event on both and posts
\* nothing.
C23_ControlDispatchedThenAcknowledged ==
    AcceptedMessage =>
        /\ handled.data.type \in { "arcade:focus", "arcade:blur", "arcade:pause",
                                    "arcade:resume" } =>
              /\ Len(handled.effects) = 3
              /\ handled.effects[1] =
                    [effect |-> "dispatch", target |-> "window", name |-> handled.data.type]
              /\ handled.effects[2] =
                    [effect |-> "dispatch", target |-> "document", name |-> handled.data.type]
              /\ handled.effects[3] =
                    [effect |-> "post", type |-> "arcade:pause-state",
                     payload |-> [state |-> handled.data.type]]
        /\ handled.data.type = "arcade:toggle-help" =>
              /\ Len(Posts(handled.effects)) = 0
              /\ Dispatches(handled.effects) =
                    << [effect |-> "dispatch", target |-> "window",
                        name |-> "arcade:toggle-help"],
                       [effect |-> "dispatch", target |-> "document",
                        name |-> "arcade:toggle-help"] >>

\* an accepted arcade:resume was acknowledged
C23_Witness ==
    /\ AcceptedMessage
    /\ handled.data.type = "arcade:resume"
    /\ Len(Posts(handled.effects)) = 1

\* C24: a message without data, with another source, from another origin or
\* without a type has no effect: no event is dispatched and no telemetry is
\* posted.
C24_ForeignMessagesIgnored ==
    (handled.kind = "message" /\ ~AcceptedMessage) => handled.effects = << >>

\* a pause request with the host's source tag arrived from another origin
C24_Witness ==
    /\ handled.kind = "message"
    /\ handled.data # Null
    /\ handled.data.source = "arcade-parent"
    /\ handled.data.type = "arcade:pause"
    /\ handled.origin # ORIGIN
    /\ handled.effects = << >>

\* the pairs of a localStorage as a set
PairSet(pairs) == { pairs[i] : i \in 1..Len(pairs) }

\* C26: for every accepted request-highscores the agent posts an
\* arcade:highscores message that carries every key/value pair of
\* localStorage; when localStorage cannot be enumerated it posts an
\* arcade:error message.
C26_HighscoresCarryEveryPair ==
    (AcceptedMessage /\ handled.data.type = "arcade:request-highscores") =>
        LET posts == Posts(handled.effects)
            last == posts[Len(posts)]
        IN  /\ Len(posts) >= 1
            /\ last.type = "arcade:highscores"
            /\ storage.readable =>
                  PairSet(last.payload.entries) = PairSet(storage.pairs)
            /\ ~storage.readable =>
                  \E i \in 1..Len(posts) : posts[i].type = "arcade:error"

ConsoleMessages(effects) ==
    SelectSeq(effects, LAMBDA e : e.effect = "post" /\ e.type = "arcade:console")

OriginalCalls(effects) == SelectSeq(effects, LAMBDA e : e.effect = "original")

\* C27 as stated: every console call forwards one arcade:console message
\* and calls the original, and an argument whose serialization fails is
\* reported by an arcade:error message.
C27_SerializationFailureReported ==
    handled.kind = "console" =>
        /\ Len(ConsoleMessages(handled.effects)) = 1
        /\ Len(OriginalCalls(handled.effects)) = 1
        /\ (\E i \in 1..Len(handled.args) : SerializationFails(handled.args[i])) =>
              \E j \in 1..Len(handled.effects) :
                  /\ handled.effects[j].effect = "post"
                  /\ handled.effects[j].type = "arcade:error"

\* C27, amended: every console call calls the original once, with the
\* arguments and the level of the call, as its last step, and posts no
\* arcade:error.  It forwards one arcade:console message with that level and
\* one serialized form per argument, except when String() fails too for
\* some argument: then it forwards nothing.  An argument whose
\* serialization fails is forwarded as its String() text.
C27_ConsoleForwardedUnlessUnprintable ==
    handled.kind = "console" =>
        LET effects == handled.effects
            messages == ConsoleMessages(effects)
            unprintable == \E i \in 1..Len(handled.args) : StringFails(handled.args[i])
        IN  /\ effects[Len(effects)] =
                  [effect |-> "original", level |-> handled.level, args |-> handled.args]
            /\ Len(OriginalCalls(effects)) = 1
            /\ Len(Posts(effects)) = Len(messages)
            /\ Len(messages) = (IF unprintable THEN 0 ELSE 1)
            /\ ~unprintable =>
                  /\ messages[1].payload.level = handled.level
                  /\ Len(messages[1].payload.args) = Len(handled.args)
                  /\ \A i \in 1..Len(handled.args) :
                        /\ messages[1].payload.args[i].of = handled.args[i]
                        /\ SerializationFails(handled.args[i]) =>
                              messages[1].payload.args[i].form = "text"

\* console.warn was called with a string and an object that refers to
\* itself, and one arcade:console message was forwarded
C27_Witness ==
    /\ handled.kind = "console"
    /\ handled.level = "warn"
    /\ handled.args = << "string", "circular" >>
    /\ Len(ConsoleMessages(handled.effects)) = 1

----------------------------------------------------------------------------
(* The message listeners of the host pages: the probe page of the health    *)
(* scan (window.__healthScan), the game page and the dev-tools page.        *)

HostKinds == { "probe", "game", "devtools" }

\* data.type of a message a host page receives
TelemetryTypes ==
    { "arcade:ready", "arcade:metrics", "arcade:console", "arcade:error",
      "arcade:pause-state", "arcade:highscores", "arcade:focus", "arcade:blur",
      "arcade:other" }

\* event.data of a message a host page receives; the payload of a message
\* is complete
InboundData ==
    { Null } \cup [source : { SOURCE, PARENT_SOURCE, "stranger" }, type : TelemetryTypes]

\* what a page keeps from telemetry when it is mounted
FreshHost ==
    [ready |-> FALSE, sized |-> FALSE, dpr |-> FALSE, metrics |-> 0,
     console |-> 0, errors |-> 0, focus |-> FALSE, highscores |-> FALSE]

\* a listener that does not look at data.source
HostAcceptsAnySource(data, origin) ==
    /\ origin = ORIGIN
    /\ data # Null

\* if (event.origin !== window.location.origin) return;
\* if (!data || data.source !== BRIDGE_SOURCE) return;
HostAccepts(data, origin) ==
    /\ origin = ORIGIN
    /\ data # Null
    /\ data.source = SOURCE

\* the switch of the listener of initialiseHealthProbe
ProbeSwitch(state, type) ==
    IF type = "arcade:ready"
    THEN [state EXCEPT !.ready = TRUE, !.sized = TRUE, !.dpr = TRUE]
    ELSE IF type = "arcade:metrics"
    THEN [state EXCEPT !.metrics = @ + 1, !.dpr = TRUE]
    ELSE IF type = "arcade:error" THEN [state EXCEPT !.errors = @ + 1]
    ELSE state

\* the switch of handleMessage of the game page
GameSwitch(state, type) ==
    IF type = "arcade:ready" THEN [state EXCEPT !.sized = TRUE, !.dpr = TRUE]
    ELSE IF type = "arcade:metrics" THEN [state EXCEPT !.dpr = TRUE]
    ELSE IF type = "arcade:focus" THEN [state EXCEPT !.focus = TRUE]
    ELSE IF type \in { "arcade:blur", "arcade:pause-state" }
    THEN [state EXCEPT !.focus = FALSE]
    ELSE state

\* the switch of handleMessage of the dev-tools page
DevToolsSwitch(state, type) ==
    IF type = "arcade:ready" THEN [state EXCEPT !.sized = TRUE, !.dpr = TRUE]
    ELSE IF type = "arcade:metrics"
    THEN [state EXCEPT !.metrics = Min({ @ + 1, MetricsKept }), !.dpr = TRUE]
    ELSE IF type = "arcade:console"
    THEN [state EXCEPT !.console = Min({ @ + 1, ConsoleKept })]
    ELSE IF type = "arcade:error" THEN [state EXCEPT !.errors = @ + 1]
    ELSE IF type = "arcade:highscores" THEN [state EXCEPT !.highscores = TRUE]
    ELSE state

\* the message listener of a host page
onHostMessage(kind, state, data, origin) ==
    IF ~HostAccepts(data, origin) THEN state
    ELSE IF kind = "probe" THEN ProbeSwitch(state, data.type)
    ELSE IF kind = "game" THEN GameSwitch(state, data.type)
    ELSE DevToolsSwitch(state, data.type)

ListenerInit ==
    /\ ScanFixed
    /\ AgentIdle
    /\ FrameIdle
    /\ MessageIdle
    /\ GamePageIdle
    /\ SignatureIdle
    /\ hostKind \in HostKinds
    /\ hostState = FreshHost
    /\ inboundCount = 0
    /\ lastInbound = [kind |-> "none"]

\* a message event reaches the listener of the host page
HostReceives ==
    /\ inboundCount < MaxInbound
    /\ inboundCount' = inboundCount + 1
    /\ \E data \in InboundData, origin \in Origins :
        /\ hostState' = onHostMessage(hostKind, hostState, data, origin)
        /\ lastInbound' = [kind |-> "message", data |-> data, origin |-> origin,
                            before |-> hostState]
    /\ UNCHANGED << outsideListener, hostKind >>

ListenerNext == HostReceives

ListenerSpec == ListenerInit /\ [][ListenerNext]_vars

\* the last message carries the agent's tag and comes from the page's origin
FromAgent ==
    /\ lastInbound.data # Null
    /\ lastInbound.data.source = "arcade-bridge"
    /\ lastInbound.origin = ORIGIN

\* C25: a message whose source is not the agent's tag, or whose origin is
\* not the page's origin, changes nothing the host page keeps: readiness
\* flag, sizes, metrics list, console list, error count, focus state and
\* high scores are what they were.
C25_HostDiscardsForeignMessages ==
    (lastInbound.kind = "message" /\ ~FromAgent) => hostState = lastInbound.before

\* a page that had received telemetry was sent arcade:error with the agent's
\* tag from another origin
C25_Witness ==
    /\ lastInbound.kind = "message"
    /\ lastInbound.data # Null
    /\ lastInbound.data.source = "arcade-bridge"
    /\ lastInbound.data.type = "arcade:error"
    /\ lastInbound.origin # ORIGIN
    /\ lastInbound.before # FreshHost
    /\ hostState = lastInbound.before

----------------------------------------------------------------------------
(* Keys on the game page.  The page is mounted when the route of a game is  *)
(* opened and unmounted when the route changes; the iframe of the game      *)
(* loads after mounting.  A key event belongs to the document that holds    *)
(* the keyboard focus: the capturing keydown listener on the iframe's       *)
(* window sees the keys of the embedded document, the capturing listener on *)
(* the host document sees the keys of the host document.                    *)

\* event.key and event.repeat of the keydown events explored
Keys == { "Escape", "h", "H", "x", "" }

\* a page whose hasNavigatedRef outlives the visit
KeepsNavigated(previous) == previous

\* const hasNavigatedRef = useRef(false), and hasNavigatedRef.current = false
\* in the effects that run when the page is mounted for an id
MountedNavigated(previous) == FALSE

\* a pipeline that treats an auto-repeat like a first press
NeverRepeat(key, repeat) == FALSE

\* if (event.repeat && (key === 'Escape' || lower === 'h'))
IsRepeatOfHostKey(key, repeat) ==
    repeat /\ (key = "Escape" \/ key = "h" \/ key = "H")

\* handleKeyPipeline(event): the refs it leaves, the control messages it
\* posts, and whether it calls navigate('/') and event.preventDefault()
handleKeyPipeline(key, repeat, navigated, focus, hidden) ==
    LET untouched == [navigated |-> navigated, focus |-> focus, hidden |-> hidden,
                      sent |-> << >>, navigate |-> FALSE, prevented |-> FALSE]
        lower == IF key = "H" THEN "h" ELSE key
    IN  IF key = "" THEN untouched
        ELSE IF IsRepeatOfHostKey(key, repeat)
        THEN [untouched EXCEPT !.prevented = TRUE]
        ELSE IF key = "Escape"
        THEN IF ~navigated
             THEN [navigated |-> TRUE, focus |-> FALSE, hidden |-> hidden,
                   sent |-> << "arcade:pause" >>, navigate |-> TRUE,
                   prevented |-> TRUE]
             ELSE [untouched EXCEPT !.prevented = TRUE]
        ELSE IF lower = "h"
        THEN [navigated |-> navigated, focus |-> focus, hidden |-> ~hidden,
              sent |-> << "arcade:toggle-help" >>, navigate |-> FALSE,
              prevented |-> TRUE]
        ELSE untouched

GamePageInit ==
    /\ ScanFixed
    /\ AgentIdle
    /\ FrameIdle
    /\ MessageIdle
    /\ ListenerIdle
    /\ SignatureIdle
    /\ GamePageIdle

\* the route of a game is opened: GamePage is mounted
OpenGame ==
    /\ route = "launcher"
    /\ navigations < MaxVisits
    /\ route' = "loading"
    /\ hasNavigatedRef' = MountedNavigated(hasNavigatedRef)
    /\ iframeFocusRef' = FALSE
    /\ hostControlsHiddenRef' = FALSE
    /\ domFocus' = "host"
    /\ sentToGame' = << >>
    /\ UNCHANGED << outsideGamePage, navigations, lastKey >>

\* onLoad of the iframe: attachFrameListeners(iframe); iframe.focus();
\* setActiveIframe(true)
IframeLoads ==
    /\ route = "loading"
    /\ route' = "game"
    /\ domFocus' = "iframe"
    /\ iframeFocusRef' = TRUE
    /\ UNCHANGED << outsideGamePage, hasNavigatedRef, hostControlsHiddenRef,
                    sentToGame, navigations, lastKey >>

\* the user clicks outside the iframe: focusout and blur of the iframe call
\* setActiveIframe(false)
FocusLeavesIframe ==
    /\ route = "game"
    /\ domFocus = "iframe"
    /\ domFocus' = "host"
    /\ iframeFocusRef' = FALSE
    /\ UNCHANGED << outsideGamePage, route, hasNavigatedRef, hostControlsHiddenRef,
                    sentToGame, navigations, lastKey >>

\* the user clicks the stage: handlePointerDown and the focus listeners
FocusEntersIframe ==
    /\ route = "game"
    /\ domFocus = "host"
    /\ domFocus' = "iframe"
    /\ iframeFocusRef' = TRUE
    /\ UNCHANGED << outsideGamePage, route, hasNavigatedRef, hostControlsHiddenRef,
                    sentToGame, navigations, lastKey >>

\* handleMessage of the game page: arcade:focus calls setActiveIframe(true),
\* arcade:blur and arcade:pause-state call setActiveIframe(false); the DOM
\* focus stays where it is
AgentReportsFocus ==
    /\ route = "game"
    /\ \E active \in BOOLEAN :
        /\ active # iframeFocusRef
        /\ iframeFocusRef' = active
    /\ UNCHANGED << outsideGamePage, route, hasNavigatedRef, domFocus,
                    hostControlsHiddenRef, sentToGame, navigations, lastKey >>

\* A keydown event.  In the embedded document handleFrameKeyDown calls
\* setActiveIframe(true) and the pipeline; in the host document
\* handleDocumentKeyDown calls the pipeline if iframeFocusRef.current.
KeyDown ==
    /\ route \in { "loading", "game" }
    /\ Len(sentToGame) < MaxControls
    /\ \E key \in Keys, repeat \in BOOLEAN :
        LET inFrame == domFocus = "iframe"
            reaches == inFrame \/ iframeFocusRef
            did == IF reaches
                   THEN handleKeyPipeline(key, repeat, hasNavigatedRef,
                                          inFrame \/ iframeFocusRef,
                                          hostControlsHiddenRef)
                   ELSE [navigated |-> hasNavigatedRef, focus |-> iframeFocusRef,
                         hidden |-> hostControlsHiddenRef, sent |-> << >>,
                         navigate |-> FALSE, prevented |-> FALSE]
        IN  /\ hasNavigatedRef' = did.navigated
            /\ iframeFocusRef' = did.focus
            /\ hostControlsHiddenRef' = did.hidden
            /\ sentToGame' = sentToGame \o did.sent
            /\ navigations' = navigations + (IF did.navigate THEN 1 ELSE 0)
            /\ lastKey' = [key |-> key, repeat |-> repeat, where |-> domFocus,
                            focusBefore |-> iframeFocusRef,
                            navigatedBefore |-> hasNavigatedRef,
                            hiddenBefore |-> hostControlsHiddenRef,
                            hiddenAfter |-> did.hidden,
                            sent |-> did.sent, navigated |-> did.navigate,
                            prevented |-> did.prevented]
    /\ UNCHANGED << outsideGamePage, route, domFocus >>

\* the route has changed to '/': GamePage is unmounted.  The cleanup that
\* posts arcade:blur finds the iframe or not.
LeaveGame ==
    /\ route \in { "loading", "game" }
    /\ hasNavigatedRef
    /\ route' = "launcher"
    /\ domFocus' = "host"
    /\ sentToGame' \in { sentToGame, Append(sentToGame, "arcade:blur") }
    /\ UNCHANGED << outsideGamePage, hasNavigatedRef, iframeFocusRef,
                    hostControlsHiddenRef, navigations, lastKey >>

GamePageNext ==
    \/ OpenGame
    \/ IframeLoads
    \/ FocusLeavesIframe
    \/ FocusEntersIframe
    \/ AgentReportsFocus
    \/ KeyDown
    \/ LeaveGame

GamePageSpec == GamePageInit /\ [][GamePageNext]_vars

\* number of arcade:pause messages posted since the page was mounted
PausesSent ==
    Cardinality({ i \in 1..Len(sentToGame) : sentToGame[i] = "arcade:pause" })

Mounted == route \in { "loading", "game" }

\* the last key was a first press of Escape that the iframe had the focus for
EscapeInFocus ==
    /\ lastKey.key = "Escape"
    /\ ~lastKey.repeat
    /\ (lastKey.where = "iframe" \/ lastKey.focusBefore)

\* C30: the first press of Escape (not an auto-repeat) of a visit, made
\* while the iframe has the focus, posts arcade:pause and calls
\* navigate('/'); a visit posts arcade:pause at most once; and every visit
\* starts with Escape armed, so that Escape leaves the page again after a
\* return.
C30_EscapePausesOnceAndNavigates ==
    /\ (EscapeInFocus /\ ~lastKey.navigatedBefore) =>
          /\ lastKey.sent = << "arcade:pause" >>
          /\ lastKey.navigated
    /\ Mounted => PausesSent <= 1
    /\ Mounted => (hasNavigatedRef <=> PausesSent = 1)

\* on the second visit Escape was pressed in the embedded document and the
\* host posted arcade:pause and navigated
C30_Witness ==
    /\ Mounted
    /\ navigations = 2
    /\ EscapeInFocus
    /\ lastKey.where = "iframe"
    /\ lastKey.navigated
    /\ PausesSent = 1

\* number of arcade:toggle-help messages posted since the page was mounted
TogglesSent ==
    Cardinality({ i \in 1..Len(sentToGame) : sentToGame[i] = "arcade:toggle-help" })

\* the last key event reached the pipeline: it came from the embedded
\* document, or from the host document while iframeFocusRef was set
KeyInFocus ==
    /\ lastKey.key # "none"
    /\ (lastKey.where = "iframe" \/ lastKey.focusBefore)

\* C31: a first press of H (either case) made while the iframe has the
\* focus inverts the controls-hidden state and posts exactly one
\* arcade:toggle-help, so the state is hidden exactly after an odd number of
\* toggles of the visit and two presses restore it; an auto-repeat of H or
\* of Escape toggles nothing, posts nothing and navigates nowhere.
C31_HTogglesOncePerPress ==
    /\ (KeyInFocus /\ lastKey.key \in { "h", "H" } /\ ~lastKey.repeat) =>
          /\ lastKey.hiddenAfter = ~lastKey.hiddenBefore
          /\ lastKey.sent = << "arcade:toggle-help" >>
          /\ ~lastKey.navigated
    /\ (lastKey.key \in { "h", "H", "Escape" } /\ lastKey.repeat) =>
          /\ lastKey.hiddenAfter = lastKey.hiddenBefore
          /\ lastKey.sent = << >>
          /\ ~lastKey.navigated
    /\ Mounted => (hostControlsHiddenRef <=> TogglesSent % 2 = 1)

\* H was pressed a second time in the embedded document and the controls
\* are shown again
C31_Witness ==
    /\ Mounted
    /\ KeyInFocus
    /\ lastKey.key = "H"
    /\ ~lastKey.repeat
    /\ lastKey.where = "iframe"
    /\ lastKey.hiddenBefore
    /\ ~lastKey.hiddenAfter
    /\ ~hostControlsHiddenRef
    /\ TogglesSent = 2

----------------------------------------------------------------------------
(* The check pipeline: check.js runs the health scan as a child process and *)
(* reads the report it wrote.                                               *)

\* the titles of the report that check.js lists as offenders: status
\* 'working' and a failing flag
Offenders(games) ==
    { k \in 1..Len(games) :
        /\ games[k].status = "working"
        /\ \/ ~games[k].ready
           \/ games[k].stalled
           \/ games[k].noMotion
           \/ games[k].noResponse }

\* check.js pushes a failure for the health scan: the child exited with a
\* non-zero status, or the report holds an offender
HealthFailure(status, games) ==
    status # 0 \/ Offenders(games) # {}

\* the scan found a title of manifest status working to be not ready,
\* stalled, without motion or without input response
WorkingTitleFlagged ==
    \E k \in 1..Len(report) :
        /\ report[k].previousStatus = "working"
        /\ \/ ~report[k].ready
           \/ report[k].stalled
           \/ report[k].noMotion
           \/ report[k].noResponse

\* C32 (as claimed): when the completed scan has found a title of manifest
\* status working to be not ready, stalled, without motion or without input
\* response, check.js reports a failure for the health scan.
C32_CheckFailsOnFlaggedWorkingTitle ==
    (pc = "done" /\ WorkingTitleFlagged) => HealthFailure(exitCode, report)

----------------------------------------------------------------------------
(* The note of a probed entry.                                              *)

\* the four causes in the order of their reasons, with what triggers each
CauseOrder == << IssueStalled, IssueErrors, IssueNoMotion, IssueNoResponse >>

Triggered(r, reason) ==
    \/ reason = IssueStalled /\ r.stalled
    \/ reason = IssueErrors /\ r.errors > ErrorThreshold
    \/ reason = IssueNoMotion /\ r.noMotion
    \/ reason = IssueNoResponse /\ r.noResponse

\* the pieces of a note that are not separators
ReasonsIn(note) == SelectSeq(note, LAMBDA piece : piece # "; ")

\* in a note a separator stands between two reasons and nowhere else
WellSeparated(note) ==
    /\ Len(note) % 2 = 1
    /\ \A k \in 1..Len(note) : (note[k] = "; ") <=> (k % 2 = 0)

\* C34: the note of a probed entry is 'Pass' exactly when none of the four
\* causes triggered; otherwise it is the reasons of the triggered causes,
\* one each, in the order stalled, high error count, no motion, no response,
\* joined by '; ', and holds no reason of a cause that did not trigger.
C34_NoteIsOrderedTriggeredReasons ==
    \A k \in 1..Len(results) :
        Probed(k) =>
            LET r == results[k]
                triggered == SelectSeq(CauseOrder, LAMBDA reason : Triggered(r, reason))
            IN  /\ (r.note = << "Pass" >>) <=> (triggered = << >>)
                /\ triggered # << >> =>
                      /\ WellSeparated(r.note)
                      /\ ReasonsIn(r.note) = triggered

\* one probed entry passed, and another has the reasons of two causes with a
\* cause between them that did not trigger
C34_Witness ==
    /\ \E k \in 1..Len(results) : Probed(k) /\ results[k].note = << "Pass" >>
    /\ \E k \in 1..Len(results) :
          /\ Probed(k)
          /\ results[k].note = << IssueErrors, "; ", IssueNoResponse >>
          /\ ~results[k].noMotion

----------------------------------------------------------------------------
(* The average frame rate of a result: main() of health-scan.ts, from the   *)
(* read of __healthScan to results.push, as far as avgFps goes.  The other  *)
(* steps of the probe neither read nor write avgFps.  Rates are kept in     *)
(* hundredths of a frame per second, and << >> is null.                     *)

\* longest health.metrics
MaxSamples == 2

\* the fps of a payload of health.metrics: << >> is a payload without a
\* finite number.  No two values have a mean halfway between two hundredths.
SampleFps == { << >>, << 0 >>, << 3000 >>, << 6000 >> }

MetricsLists == UNION { [1..n -> SampleFps] : n \in 0..MaxSamples }

\* frame intervals of the embedded window during the measurement (ms)
FpsIntervalsMs == { 16, 66, 67 }

\* metrics.map((sample) => sample.fps).filter(finite number)
FpsSamples(metrics) ==
    LET finite == SelectSeq(metrics, LAMBDA fps : fps # << >>)
    IN  [k \in 1..Len(finite) |-> finite[k][1]]

\* let avgFps = fpsSamples.length > 0
\*   ? Number((sum / fpsSamples.length).toFixed(2)) : null
MeanFps(samples) ==
    IF Len(samples) > 0
    THEN << Hundredths(Sum(samples), 100 * Len(samples)) >>
    ELSE << >>

\* an average that stays the self-reported one
KeepsSelfReported(avg, activity) == avg

\* if (animationActivity && animationActivity.elapsedMs > 0)
\*   avgFps = Number((tickCount / (elapsedMs / 1000)).toFixed(2))
VerifiedFps(avg, activity) ==
    IF activity # Null /\ activity.elapsedMs > 0
    THEN << Hundredths(1000 * activity.tickCount, activity.elapsedMs) >>
    ELSE avg

\* the entry has been found ready or not, and the page holds health.metrics
FpsInit ==
    /\ manifest = Window(1, 1)
    /\ ScanIdle
    /\ AgentIdle
    /\ FrameIdle
    /\ MessageIdle
    /\ ListenerIdle
    /\ GamePageIdle
    /\ SignatureIdle
    /\ KeyIdle
    /\ \E isReady \in BOOLEAN, metrics \in MetricsLists :
          fpsProbe = [pc |-> "readHealth", ready |-> isReady, metrics |-> metrics,
                      fpsSamples |-> << >>, avgFps |-> << >>,
                      animationActivity |-> Null, pushed |-> FALSE,
                      result |-> << >>]

\* const metrics, const fpsSamples, let avgFps; an entry that is not ready
\* goes on to results.push without another await
AverageSamples ==
    /\ fpsProbe.pc = "readHealth"
    /\ LET samples == FpsSamples(fpsProbe.metrics)
           read == [fpsProbe EXCEPT !.fpsSamples = samples,
                                    !.avgFps = MeanFps(samples)]
       IN  fpsProbe' = IF fpsProbe.ready
                       THEN [read EXCEPT !.pc = "measure"]
                       ELSE [read EXCEPT !.pc = "done", !.pushed = TRUE,
                                         !.result = read.avgFps]
    /\ UNCHANGED outsideFps

\* if (ready) { animationActivity = await measureAnimationActivity(page); ... }
MeasureRate ==
    /\ fpsProbe.pc = "measure"
    /\ \E activity \in { Null } \cup { ActivityAt(d) : d \in FpsIntervalsMs } :
          fpsProbe' = [fpsProbe EXCEPT
                          !.animationActivity = activity,
                          !.avgFps = VerifiedFps(@, activity),
                          !.pc = "probe"]
    /\ UNCHANGED outsideFps

\* results.push({ ..., avgFps, ... }) after the signature steps
PushAverage ==
    /\ fpsProbe.pc = "probe"
    /\ fpsProbe' = [fpsProbe EXCEPT !.pc = "done", !.pushed = TRUE,
                                    !.result = fpsProbe.avgFps]
    /\ UNCHANGED outsideFps

FpsNext ==
    \/ AverageSamples
    \/ MeasureRate
    \/ PushAverage

FpsSpec == FpsInit /\ [][FpsNext]_vars

\* measureAnimationActivity ran for the entry and returned a measurement
Measured == fpsProbe.ready /\ fpsProbe.animationActivity # Null

\* tickCount / (elapsedMs / 1000), to two decimals, in hundredths
DriverRate(activity) == Hundredths(1000 * activity.tickCount, activity.elapsedMs)

\* v is a whole number nearest to n / d
NearestTo(v, n, d) ==
    /\ 2 * (v * d - n) <= d
    /\ 2 * (n - v * d) <= d

\* C35: the avgFps of a ready entry is the driver-verified rate whenever the
\* measurement is available; the mean of the self-reported fps samples is
\* the avgFps only when the entry is not ready or there is no measurement,
\* and with neither a measurement nor a sample avgFps is null.
C35_DriverRateSupersedesSelfReported ==
    (fpsProbe # Null /\ fpsProbe.pushed) =>
        /\ Measured => fpsProbe.result = << DriverRate(fpsProbe.animationActivity) >>
        /\ (~Measured /\ fpsProbe.fpsSamples # << >>) =>
              /\ Len(fpsProbe.result) = 1
              /\ NearestTo(fpsProbe.result[1], Sum(fpsProbe.fpsSamples),
                           Len(fpsProbe.fpsSamples))
        /\ (~Measured /\ fpsProbe.fpsSamples = << >>) => fpsProbe.result = << >>
        /\ ~fpsProbe.ready => fpsProbe.animationActivity = Null

\* the result of a ready entry that reported fps samples holds the rate the
\* driver measured, which is not the mean of the samples
C35_Witness ==
    /\ fpsProbe # Null
    /\ fpsProbe.pushed
    /\ fpsProbe.ready
    /\ Len(fpsProbe.fpsSamples) = 2
    /\ Measured
    /\ fpsProbe.result = << 1515 >>
    /\ MeanFps(fpsProbe.fpsSamples) = << 4500 >>

----------------------------------------------------------------------------
(* The movement key of an entry: selectFirstMovementKey applied to input    *)
(* descriptions made of a first alternative, a combinator and a second      *)
(* alternative.  A text is the sequence of its characters.                  *)

FirstAlternatives ==
    { << "L", "e", "f", "t" >>,
      << "r", "i", "g", "h", "t" >>,
      << "U", "p" >>,
      << "D", "O", "W", "N" >>,
      << "A", "r", "r", "o", "w", " ", "L", "e", "f", "t" >>,
      << "A", "r", "r", "o", "w", "R", "i", "g", "h", "t" >>,
      << "A", "r", "r", "o", "w", " ", " ", "U", "p" >>,
      << "a", "r", "r", "o", "w", " ", "d", "o", "w", "n" >>,
      << "A", "r", "r", "o", "w", " ", "K", "e", "y", "s" >>,
      << "A", "r", "r", "o", "w", "s" >>,
      << "A" >>,
      << "d" >>,
      << "S", "p", "a", "c", "e" >>,
      << "S", "p", "a", "c", "e", "b", "a", "r" >>,
      << "W", "A", "S", "D" >> }

Combinators ==
    { << "/" >>, << " ", "/", " " >>, << " ", "o", "r", " " >>, << ",", " " >>,
      << "|" >>, << " ", "|", " " >> }

SecondAlternatives == { << "R", "i", "g", "h", "t" >>, << "D" >> }

\* a description with one alternative, or with two around a combinator
Descriptions ==
    { [first |-> f, rawInput |-> f] : f \in FirstAlternatives }
    \cup { [first |-> f, rawInput |-> f \o c \o s] :
             f \in FirstAlternatives, c \in Combinators, s \in SecondAlternatives }

KeyInit ==
    /\ manifest = Window(1, 1)
    /\ ScanIdle
    /\ FpsIdle
    /\ activityProbe = Null
    /\ AgentIdle
    /\ FrameIdle
    /\ MessageIdle
    /\ ListenerIdle
    /\ GamePageIdle
    /\ SignatureIdle
    /\ \E d \in Descriptions :
          keyProbe = [first |-> d.first, rawInput |-> d.rawInput,
                      derived |-> FALSE, movementKey |-> NullKey]

\* const movementKey = selectFirstMovementKey(game)
DeriveKey ==
    /\ ~keyProbe.derived
    /\ keyProbe' = [keyProbe EXCEPT
                       !.derived = TRUE,
                       !.movementKey = selectFirstMovementKey(
                                           [movement |-> << keyProbe.rawInput >>])]
    /\ UNCHANGED outsideKey

KeyNext == DeriveKey

KeySpec == KeyInit /\ [][KeyNext]_vars

ArrowKeys == { "ArrowLeft", "ArrowRight", "ArrowUp", "ArrowDown" }

\* the key the claim gives to a first alternative that is a direction word, a
\* single letter, Space or Spacebar, whatever the case of its letters
NamedKey(first) ==
    LET upper == ToUpperCase(first)
    IN  CASE upper = LEFT -> "ArrowLeft"
          [] upper = RIGHT -> "ArrowRight"
          [] upper = UP -> "ArrowUp"
          [] upper = DOWN -> "ArrowDown"
          [] upper = SPACE \/ upper = SPACEBAR -> "Space"
          [] Len(first) = 1 /\ IsUpper(upper[1]) -> ToLowerChar(first[1])
          [] OTHER -> NullKey

\* C36 (as claimed): from the first movement input a single canonical key is
\* derived, and it is the key of the first alternative of a combinator: a
\* direction word gives its Arrow key, a description that begins with
\* 'Arrow' gives an Arrow key, a single letter gives that letter in lower
\* case, and Space or Spacebar gives Space.
C36_CanonicalKeyOfFirstAlternative ==
    (keyProbe # Null /\ keyProbe.derived) =>
        /\ NamedKey(keyProbe.first) # NullKey =>
              keyProbe.movementKey = NamedKey(keyProbe.first)
        /\ StartsWith(ToUpperCase(keyProbe.first), ARROW) =>
              keyProbe.movementKey \in ArrowKeys

----------------------------------------------------------------------------
(* The probe of a stalled entry.                                            *)

\* the steps of a probe after the read of __healthScan
LaterSteps == { "measure", "sigA", "sigB", "press", "sigC" }

\* C37: for a stalled entry none of the later probe steps run: the driver is
\* at a later step for a ready entry only, and when the result of a stalled
\* entry is pushed there has been no activity measurement, no signature
\* delta and no key dispatch; the result has noMotion = false and
\* noResponse = false, and its note holds the stalled reason and, at most,
\* the reason of the error count.
C37_StalledEntrySkipsLaterSteps ==
    /\ pc \in LaterSteps => ready
    /\ (JustProbed /\ LastResult.stalled) =>
          /\ animationActivity = Null
          /\ motionDelta = Null
          /\ responseDelta = Null
          /\ keyPresses = 0
          /\ ~pressFailed
          /\ ~LastResult.noMotion
          /\ ~LastResult.noResponse
          /\ ReasonsIn(LastResult.note) \in
                { << IssueStalled >>, << IssueStalled, IssueErrors >> }

\* a stalled entry with a derivable movement key and more than 3 errors has
\* been pushed
C37_Witness ==
    /\ JustProbed
    /\ LastResult.stalled
    /\ selectFirstMovementKey(LastGame) # NullKey
    /\ LastResult.errors > ErrorThreshold
    /\ LastResult.status = "broken"

----------------------------------------------------------------------------
(* The activity measurement: measureAnimationActivity schedules step() on   *)
(* the requestAnimationFrame of the embedded window, which the installed    *)
(* agent has wrapped.  The embedded program may run a loop of its own on    *)
(* the same primitive, started before or during the measurement.           *)

\* frames of the embedded window before the measurement begins
MaxWarmFrames == 2

\* frame intervals of the embedded window (ms)
ActivityIntervalsMs == { 20, 67, 1000 }

\* a step that resolves at its first call
ResolvesAtOnce(elapsed) == TRUE

\* if (elapsed >= 2000) { resolve(...); return; }
Resolves(elapsed) == elapsed >= ActivityWindowMs

ActivityInit ==
    /\ manifest = Window(1, 1)
    /\ ScanIdle
    /\ FpsIdle
    /\ keyProbe = Null
    /\ AgentInstalled
    /\ \E d \in ActivityIntervalsMs :
          activityProbe = [d |-> d, pc |-> "idle", start |-> 0, ticks |-> 0,
                           queue |-> << >>, due |-> << >>, warmFrames |-> 0,
                           programCalls |-> 0, earlier |-> FALSE,
                           recordCalls |-> 0, sampledTicks |-> 0,
                           result |-> Null]

\* the closure wrappedRequestAnimationFrame hands to the native primitive:
\* recordFrame(timestamp); sendReadyOnce(); then the callback
ClosureRuns ==
    /\ LET recorded == recordFrame(metricsState, frameNow)
       IN  /\ metricsState' = recorded.state
           /\ metricsLog' = IF recorded.posted THEN Append(metricsLog, frameNow)
                                                ELSE metricsLog
           /\ lastMetrics' = IF recorded.posted THEN recorded.payload ELSE lastMetrics
           /\ frameDeltas' = DeltasWith(metricsState, frameNow)
    /\ SendReadyBy({ 1 })
    /\ UNCHANGED << outsideActivity, installed, canvasInDoc, mutationPending,
                    frameNow, callbackQueue, nativeHandles, lastCall, callbackLog >>

activityOnly == << outsideActivity, agentVars, frameVars >>

\* the embedded program calls requestAnimationFrame for the first time
ProgramStartsLoop ==
    /\ activityProbe.pc # "resolved"
    /\ activityProbe.programCalls = 0
    /\ \A i \in 1..Len(activityProbe.queue) : activityProbe.queue[i] # "program"
    /\ \A i \in 1..Len(activityProbe.due) : activityProbe.due[i] # "program"
    /\ activityProbe' = [activityProbe EXCEPT !.queue = Append(@, "program")]
    /\ UNCHANGED activityOnly

\* const start = frameWindow.performance.now();
\* frameWindow.requestAnimationFrame(step)
StartMeasurement ==
    /\ activityProbe.pc = "idle"
    /\ activityProbe.due = << >>
    /\ activityProbe' = [activityProbe EXCEPT !.pc = "running", !.start = frameNow,
                                              !.queue = Append(@, "step")]
    /\ UNCHANGED activityOnly

\* the next frame of the embedded window: the callbacks queued so far are
\* the ones it runs, in the order of their scheduling
FrameArrives ==
    /\ activityProbe.pc # "resolved"
    /\ activityProbe.due = << >>
    /\ activityProbe.queue # << >>
    /\ activityProbe.pc = "idle" => activityProbe.warmFrames < MaxWarmFrames
    /\ frameNow' = frameNow + activityProbe.d
    /\ activityProbe' = [activityProbe EXCEPT
                            !.due = activityProbe.queue,
                            !.queue = << >>,
                            !.warmFrames = IF activityProbe.pc = "idle" THEN @ + 1 ELSE @]
    /\ UNCHANGED << outsideActivity, agentVars, metricsState, callbackQueue,
                    nativeHandles, lastCall, callbackLog, metricsLog, lastMetrics,
                    frameDeltas >>

\* the callback of the embedded program, which schedules itself again
ProgramCallback ==
    /\ activityProbe.due # << >>
    /\ Head(activityProbe.due) = "program"
    /\ ClosureRuns
    /\ activityProbe' = [activityProbe EXCEPT
                            !.due = Tail(@),
                            !.queue = Append(@, "program"),
                            !.programCalls = @ + 1]

\* step() of measureAnimationActivity, called by the closure of the wrapper
DriverStep ==
    /\ activityProbe.due # << >>
    /\ Head(activityProbe.due) = "step"
    /\ ClosureRuns
    /\ LET elapsed == frameNow - activityProbe.start
           counted == [activityProbe EXCEPT
                         !.due = Tail(@),
                         !.ticks = @ + 1,
                         !.earlier = IF activityProbe.ticks = 0
                                     THEN activityProbe.programCalls > 0 ELSE @,
                         !.recordCalls = @ + 1,
                         !.sampledTicks = IF metricsState.lastTimestamp # << >>
                                          THEN @ + 1 ELSE @]
       IN  activityProbe' =
             IF Resolves(elapsed)
             THEN [counted EXCEPT !.pc = "resolved",
                                  !.result = [tickCount |-> counted.ticks,
                                              elapsedMs |-> elapsed]]
             ELSE [counted EXCEPT !.queue = Append(@, "step")]

ActivityNext ==
    \/ ProgramStartsLoop
    \/ StartMeasurement
    \/ FrameArrives
    \/ ProgramCallback
    \/ DriverStep

ActivitySpec == ActivityInit /\ [][ActivityNext]_vars

ActivityResolved == activityProbe # Null /\ activityProbe.pc = "resolved"

\* the tick count is that of the frames of the window alone
TicksAreDriversOwn ==
    /\ activityProbe.result = ActivityAt(activityProbe.d)
    /\ activityProbe.result.tickCount = activityProbe.ticks

\* C38 (as claimed): the tick count counts the driver's own callback only,
\* so it is the same whether or not the embedded program schedules animation
\* callbacks, and every driver tick is recorded by the agent as a frame
\* sample.
C38_EveryTickIsAFrameSample ==
    ActivityResolved =>
        /\ TicksAreDriversOwn
        /\ activityProbe.sampledTicks = activityProbe.result.tickCount

\* C38 (amended): the tick count counts the driver's own callback only, so it
\* is the same whether or not the embedded program schedules animation
\* callbacks; every driver tick runs recordFrame of the installed agent, and
\* every tick is recorded as a frame sample except the first one when no
\* callback of the embedded program ran before it.
C38_TicksSampledButAFirstFrame ==
    ActivityResolved =>
        /\ TicksAreDriversOwn
        /\ activityProbe.recordCalls = activityProbe.result.tickCount
        /\ activityProbe.sampledTicks =
              IF activityProbe.earlier THEN activityProbe.result.tickCount
              ELSE activityProbe.result.tickCount - 1

\* a measurement of 100 ticks has resolved for a program that never
\* scheduled a callback: the agent holds 99 deltas, 60 of them in its window
C38_Witness ==
    /\ ActivityResolved
    /\ activityProbe.programCalls = 0
    /\ activityProbe.result.tickCount = 100
    /\ activityProbe.sampledTicks = 99
    /\ Len(frameDeltas) = 99
    /\ Len(metricsState.frameTimes) = FrameWindow

====
